---- MODULE Spec2Model ----
(***************************************************************************)
(* Cognitive-Inference-Engine: the telemetry aggregator (tick, state       *)
(* query, listeners), its periodic driver and lifespan, and the signal     *)
(* processor's sliding window under concurrent push and extract.           *)
(*                                                                         *)
(* The specifications of the module, each over its own group of variables: *)
(*   Spec       the aggregator: lifespan, driver, tick thread, GET /state  *)
(*   FairSpec   the same without the query thread, with the fairness of    *)
(*              the event loop and the executor (liveness of the driver)   *)
(*   SpecWindow the signal processor: executor threads running push and    *)
(*              the tick thread running extract_features, with a clock     *)
(*   SpecInfer  one tick() after another with the values it computes: the  *)
(*              load estimate, the classified context, the persisted entry *)
(*   SpecEstimate  MLLoadEstimator constructed, then estimate() called again *)
(*              and again                                                  *)
(*   SpecClassify  one classify call on each of its inputs                   *)
(*   SpecStore  the timeline store: writers appending through their own    *)
(*              connections, and queries                                   *)
(*   SpecSessions  get_sessions over the tables the store can hold         *)
(*   SpecDaily  get_daily_stats, with appends while it runs                  *)
(*   SpecIngest  POST /telemetry/event and /telemetry/batch up to the queue  *)
(*   SpecPolicy  GET /actions/directives: the policy engine on the latest    *)
(*              estimate and context                                       *)
(*   SpecSettings  the settings file, its load on import, and /settings      *)
(*   SpecTasks  the task queue under requests and the tick listener        *)
(*   SpecPomodoro  AdaptivePomodoro.tick called by two threads, with a clock *)
(*   SpecAgent  the polls of the desktop agent                             *)
(***************************************************************************)
EXTENDS Integers, Sequences, FiniteSets, TLC

\* ------------------------------------------------------------------ bounds
\* ticks the driver may start
MaxTicks == 3
\* listeners registered at startup
MaxListeners == 2
\* last instant of the clock
MaxTime == 2
\* events pushed in one run
MaxPush == 3

\* tick() calls of one run of the values specification
MaxCalls == 3

\* append calls of one run of the store
MaxAppends == 2
\* rows of a table that get_sessions reads
MaxStored == 4
\* estimate() calls on one estimator
MaxEstimates == 6
\* events of a batch
MaxBatch == 3
\* requests of one producer
MaxRequests == 2
\* the last reading of the pomodoro clock
MaxClock == 12
\* polls of the desktop agent
MaxPolls == 6

\* SignalProcessor.window_seconds; the clock counts in units of one window
window_seconds == 1
\* Config.telemetry_buffer_size, the most events held in memory: 500 in the
\* program, here below the number of pushes of a behaviour
telemetry_buffer_size == 2
\* DesktopAgent.idle_threshold_s, 30 polls of one second in the program
idle_threshold_s == 2

\* executor threads that run push_event; "tick" is the thread that runs tick()
Pushers == {"p1", "p2"}
Workers == Pushers \cup {"tick"}
\* the canonical event types pushed here; eviction never reads the type
EventTypes == {"tab_switch"}

VARIABLES
    \* --- aggregator, driver, lifespan
    lif,              \* lifespan: "setup", "serving", "cancelling", "stopped"
    listeners,        \* TelemetryAggregator._listeners, in registration order
    drv,              \* _inference_loop: "none", "sleep", "await", "exited"
    nticks,           \* number of tick() calls submitted to the executor
    tk,               \* tk[n]: position of the n-th tick() call
    latest_estimate,  \* _latest_estimate: 0 is None, n the estimate made by tick n
    latest_context,   \* _latest_context: 0 is the initial UNKNOWN, n tick n's context
    timeline,         \* ticks whose entry the store holds, in append order
    calls,            \* listener invocations of the ticks, in order
    q,                \* one GET /state request
    \* --- signal processor
    now,              \* time.time()
    events,           \* SignalProcessor._events
    pushed,           \* number of push calls made
    wk,               \* wk[w]: position of worker w inside push / extract_features
    completed,        \* events whose push has returned, each with whether it was stale when pushed
    removedFresh,     \* events removed, after their push returned, while inside the window
    tickSeen,         \* completed, as it was when the running extract_features started
    snapshot,         \* list(self._events) of the last extract_features
    snapNow,          \* the clock when that snapshot was taken
    features,         \* the counts extracted from that snapshot
    \* --- the values of a tick
    model_loaded,     \* MLLoadEstimator._model is not None
    history,          \* _history of the estimator in use
    ncalls,           \* number of tick() calls made
    persisted,        \* the entries the ticks appended, each with the call that wrote it
    returned,         \* the calls that returned, with the estimate and context of each
    \* --- the timeline store
    table,            \* the committed rows of table timeline, in insertion order
    seq,              \* sqlite_sequence: the largest id handed out
    wr,               \* wr[w]: position of writer w inside append, and its row
    issued,           \* number of append calls made
    acked,            \* the rows whose append returned their id
    qargs,            \* the arguments of the queries of this run
    results,          \* the last two queries: rows returned, table read, rows acked before
    \* --- session analytics
    sargs,            \* the arguments of the get_sessions call
    raw_sessions,     \* its raw_sessions: the ticks of each session
    sessions,         \* the SessionSummary list it returned
    \* --- daily statistics
    clock,            \* the last reading of time.time()
    daily,            \* one get_daily_stats call: its position and its locals
    \* --- the classifier
    classified,       \* one classify call: its arguments and the label returned
    \* --- telemetry ingestion
    reqs,             \* reqs[p]: the request of producer p being handled
    enq,              \* the appends made to the processor's queue, in order
    \* --- construction of the estimator
    artifact,         \* what MLLoadEstimator() found at model_path, and whether it raised
    \* --- GET /actions/directives
    cell,             \* _latest_estimate and _latest_context as the ticks write them
    directives,       \* the directives of the last response, with what evaluate was given
    \* --- user settings
    settings_file,    \* data/settings.json: absent, text that is not JSON, or a JSON value
    _current,         \* engine.settings._current
    imported,         \* whether module engine.settings was imported, and whether its _load raised
    got,              \* the result of the last get_settings()
    http,             \* the last PUT /settings and the GET /settings after it, with their responses
    \* --- task queue
    _tasks,           \* TaskQueueManager._tasks, the ids of its tasks in order
    upd,              \* update_load in the executor thread: idle, or holding the list it sorted
    rem,              \* remove_task in a request thread: idle, or holding the list it filtered
    ledger,           \* the ids added, those whose removal was asked, and those removed
    \* --- pomodoro
    ptime,            \* time.time(), in units of five minutes
    pstate,           \* AdaptivePomodoro.state; obj numbers the PomodoroState objects made
    pth,              \* pth[t]: position of thread t inside AdaptivePomodoro.tick; was: the count when it began
    pledger,          \* the WORK intervals a tick found complete, the breaks ticks started, the objects made
    \* --- desktop agent
    polls,            \* the active windows the polls of the desktop agent read, in order
    agent,            \* DesktopAgent: _last_app, _last_active_at, _is_idle, _buffer, flush_counter of run
    emitted           \* the events _push_event was called with, each with the poll that made it

aggVars == <<lif, listeners, drv, nticks, tk, latest_estimate, latest_context,
             timeline, calls, q>>
spVars == <<now, events, pushed, wk, completed, removedFresh,
            tickSeen, snapshot, snapNow, features>>
infVars == <<model_loaded, history, ncalls, persisted, returned>>
stVars == <<table, seq, wr, issued, acked, qargs, results>>
seVars == <<sargs, raw_sessions, sessions>>
dsVars == <<clock, daily>>
fnVars == <<classified>>
inVars == <<reqs, enq>>
ldVars == <<artifact>>
plVars == <<cell, directives>>
setVars == <<settings_file, _current, imported, got, http>>
tqVars == <<_tasks, upd, rem, ledger>>
pomVars == <<ptime, pstate, pth, pledger>>
daVars == <<polls, agent, emitted>>
vars == <<aggVars, spVars, infVars, stVars, seVars, dsVars, fnVars, inVars, ldVars, plVars, setVars, tqVars, pomVars, daVars>>
\* what the steps of one component leave alone
exceptAgg == <<spVars, infVars, stVars, seVars, dsVars, fnVars, inVars, ldVars, plVars, setVars, tqVars, pomVars, daVars>>
exceptWindow == <<aggVars, infVars, stVars, seVars, dsVars, fnVars, inVars, ldVars, plVars, setVars, tqVars, pomVars, daVars>>
exceptInfer == <<aggVars, spVars, stVars, seVars, dsVars, fnVars, inVars, ldVars, plVars, setVars, tqVars, pomVars, daVars>>
exceptStore == <<aggVars, spVars, infVars, seVars, dsVars, fnVars, inVars, ldVars, plVars, setVars, tqVars, pomVars, daVars>>
exceptSessions == <<aggVars, spVars, infVars, dsVars, fnVars, inVars, ldVars, plVars, setVars, tqVars, pomVars, daVars>>
exceptDaily == <<aggVars, spVars, infVars, seVars, fnVars, inVars, ldVars, plVars, setVars, tqVars, pomVars, daVars>>
exceptClassify == <<aggVars, spVars, infVars, stVars, seVars, dsVars, inVars, ldVars, plVars, setVars, tqVars, pomVars, daVars>>
exceptEstimate == <<aggVars, spVars, stVars, seVars, dsVars, fnVars, inVars, plVars, setVars, tqVars, pomVars, daVars>>
exceptPolicy == <<aggVars, spVars, infVars, stVars, seVars, dsVars, fnVars, inVars, ldVars, setVars, tqVars, pomVars, daVars>>
exceptSettings == <<aggVars, spVars, infVars, stVars, seVars, dsVars, fnVars, inVars, ldVars, plVars, tqVars, pomVars, daVars>>
exceptTasks == <<aggVars, spVars, infVars, stVars, seVars, dsVars, fnVars, inVars, ldVars, plVars, setVars, pomVars, daVars>>
exceptPomodoro == <<aggVars, spVars, infVars, stVars, seVars, dsVars, fnVars, inVars, ldVars, plVars, setVars, tqVars, daVars>>
exceptAgent == <<aggVars, spVars, infVars, stVars, seVars, dsVars, fnVars, inVars, ldVars, plVars, setVars, tqVars, pomVars>>
\* the ingestion steps change the queue of the signal processor and no more of it
exceptIngest == <<aggVars, infVars, stVars, seVars, dsVars, fnVars, ldVars, plVars, setVars, tqVars, pomVars, daVars,
                  now, pushed, wk, completed, removedFresh, tickSeen, snapshot,
                  snapNow, features>>

Range(s) == {s[i] : i \in 1..Len(s)}

\* ------------------------------------------------------------- initial state
IdleQuery ==
    [pc |-> "idle", load_score |-> 0, context |-> 0, confidence |-> 0,
     breakdown |-> 0, clean |-> TRUE, after |-> 0]

\* _rate: the number of events of one type in the snapshot
Rate(evs, type) == Cardinality({i \in 1..Len(evs) : evs[i].type = type})

\* the counts extract_features divides into rates and fractions
ExtractCounts(evs) ==
    [tab_switch |-> Rate(evs, "tab_switch"), total |-> Len(evs)]

InitAgg ==
    /\ lif = "setup"
    /\ listeners = <<>>
    /\ drv = "none"
    /\ nticks = 0
    /\ tk = [n \in 1..MaxTicks |-> [pc |-> "none", i |-> 0]]
    /\ latest_estimate = 0
    /\ latest_context = 0
    /\ timeline = <<>>
    /\ calls = <<>>
    /\ q = IdleQuery

NoEvent == [id |-> 0, ts |-> 0, type |-> "none", stale |-> FALSE]

\* an event is inside the window at time t
Fresh(ts, t) == ts >= t - window_seconds

InitWindow ==
    /\ now = 0
    /\ events = <<>>
    /\ pushed = 0
    /\ wk = [w \in Workers |-> [pc |-> "idle", cutoff |-> 0, ev |-> NoEvent]]
    /\ completed = {}
    /\ removedFresh = {}
    /\ tickSeen = {}
    /\ snapshot = <<>>
    /\ snapNow = 0
    /\ features = ExtractCounts(<<>>)

\* LoadEstimate.score is rounded to 4 decimals: scores, fractions and the
\* components of the breakdown are counted in units of 0.0001
Unit == 10000

\* LoadEstimator(history_size=5)
history_size == 5

\* the aggregator's estimator after construction; ml: a saved model was loaded
InitEstimator(ml) ==
    /\ model_loaded = ml
    /\ history = <<>>
    /\ ncalls = 0
    /\ persisted = <<>>
    /\ returned = <<>>

\* threads that call append
Writers == {"w1", "w2"}

\* an optional argument: None, or the value supplied
None == <<>>
Some(x) == <<x>>

\* the store after _init_db on a new file
InitStore ==
    /\ table = <<>>
    /\ seq = 0
    /\ wr = [w \in Writers |-> [pc |-> "idle", row |-> None]]
    /\ issued = 0
    /\ acked = {}
    /\ qargs = None
    /\ results = <<>>

\* no get_sessions call made yet
InitAnalytics ==
    /\ sargs = None
    /\ raw_sessions = <<>>
    /\ sessions = <<>>

\* no get_daily_stats call made yet
IdleDaily ==
    [pc |-> "idle", since |-> None, until |-> None, gap_minutes |-> 0,
     read |-> <<>>, ticks |-> <<>>, found |-> <<>>, stats |-> <<>>]

InitDaily ==
    /\ clock = 0
    /\ daily = IdleDaily

\* no classify call made yet
InitClassifier == classified = None

\* the producers: one posts a batch, one posts single events, each when the
\* one before was answered
Producers == {"batch", "event"}

NoRequest ==
    [n |-> 0, pc |-> "idle", body |-> <<>>, i |-> 0, accepted |-> 0,
     status |-> 0, reply |-> None]

\* no request received yet
InitIngest ==
    /\ reqs = [p \in Producers |-> NoRequest]
    /\ enq = <<>>

\* MLLoadEstimator() not yet called
InitLoader == artifact = None

\* no tick has run: _latest_estimate is None and _latest_context UNKNOWN
InitPolicy ==
    /\ cell = [estimate |-> None, context |-> "unknown", pending |-> None]
    /\ directives = None

\* the module is not imported yet, and no settings file was ever written
InitSettings ==
    /\ settings_file = None
    /\ _current = <<>>
    /\ imported = None
    /\ got = None
    /\ http = [put |-> None, get |-> None]

\* TaskQueueManager(): an empty queue, no call running
InitTasks ==
    /\ _tasks = <<>>
    /\ upd = [pc |-> "idle", sorted |-> <<>>]
    /\ rem = [pc |-> "idle", id |-> "", filtered |-> <<>>, before |-> 0]
    /\ ledger = [added |-> {}, removing |-> {}, removed |-> {}]

\* the threads that call AdaptivePomodoro.tick: the tick listener in the
\* executor, and GET /actions/pomodoro in a request thread
PomodoroThreads == {"listener", "request"}

\* AdaptivePomodoro(): PomodoroState() with its defaults, 1500 s being 5 units
InitPomodoro ==
    /\ ptime = 1
    /\ pstate = [phase |-> "idle", started_at |-> None, duration_seconds |-> 5,
                 sessions_completed |-> 0, obj |-> 0]
    /\ pth = [t \in PomodoroThreads |->
                [pc |-> "idle", load |-> 0, was |-> 0, read |-> 0, obj |-> 0]]
    /\ pledger = [seen |-> {}, breaks |-> 0, made |-> 0]

\* DesktopAgent(): constructed at time 0, nothing polled
InitAgent ==
    /\ polls = <<>>
    /\ agent = [_last_app |-> "", _last_active_at |-> 0, _is_idle |-> FALSE,
                _buffer |-> <<>>, flush_counter |-> 0]
    /\ emitted = <<>>

Init ==
    /\ InitAgg /\ InitWindow /\ InitEstimator(FALSE) /\ InitStore /\ InitAnalytics
    /\ InitDaily /\ InitClassifier /\ InitIngest /\ InitLoader /\ InitPolicy /\ InitSettings /\ InitTasks /\ InitPomodoro /\ InitAgent

\* ------------------------------------------------------------------ lifespan
RegisterListener ==
    /\ lif = "setup"
    /\ Len(listeners) < MaxListeners
    /\ listeners' = Append(listeners, Len(listeners) + 1)
    /\ UNCHANGED <<lif, drv, nticks, tk, latest_estimate, latest_context, timeline, calls, q>>

StartDriver ==
    /\ lif = "setup"
    /\ lif' = "serving"
    /\ drv' = "sleep"
    /\ UNCHANGED <<listeners, nticks, tk, latest_estimate, latest_context, timeline, calls, q>>

\* inference_task.cancel(), then the lifespan awaits the task
LifespanCancel ==
    /\ lif = "serving"
    /\ lif' = "cancelling"
    /\ UNCHANGED <<listeners, drv, nticks, tk, latest_estimate, latest_context, timeline, calls, q>>

\* CancelledError is thrown into the coroutine at the await it is suspended on
\* (the sleep, or the executor future); it is no Exception, so the loop ends.
\* The executor thread is not interrupted.
DriverCancelled ==
    /\ lif = "cancelling"
    /\ drv \in {"sleep", "await"}
    /\ drv' = "exited"
    /\ UNCHANGED <<lif, listeners, nticks, tk, latest_estimate, latest_context, timeline, calls, q>>

\* await inference_task returns: the driver is observed to have exited
LifespanExit ==
    /\ lif = "cancelling"
    /\ drv = "exited"
    /\ lif' = "stopped"
    /\ UNCHANGED <<listeners, drv, nticks, tk, latest_estimate, latest_context, timeline, calls, q>>

\* -------------------------------------------------------------------- driver
Finished(n) == tk[n].pc \in {"returned", "raised"}
Running(n) == tk[n].pc \notin {"none", "returned", "raised"}

\* the bug of a driver that submits the tick and does not wait for it
DriverWakeNoAwait ==
    /\ drv = "sleep"
    /\ lif = "serving"
    /\ nticks < MaxTicks
    /\ nticks' = nticks + 1
    /\ tk' = [tk EXCEPT ![nticks + 1] = [pc |-> "infer", i |-> 0]]
    /\ calls' = <<>>
    /\ drv' = "sleep"
    /\ UNCHANGED <<lif, listeners, latest_estimate, latest_context, timeline, q>>

\* the sleep ends; tick() is handed to the executor and awaited
DriverWake ==
    /\ drv = "sleep"
    /\ lif = "serving"
    /\ nticks < MaxTicks
    /\ nticks' = nticks + 1
    /\ tk' = [tk EXCEPT ![nticks + 1] = [pc |-> "infer", i |-> 0]]
    /\ calls' = <<>>
    /\ drv' = "await"
    /\ UNCHANGED <<lif, listeners, latest_estimate, latest_context, timeline, q>>

\* the bug of a loop without the except clause: a raising tick ends the task
DriverResumeNoCatch ==
    /\ drv = "await"
    /\ lif = "serving"
    /\ nticks > 0
    /\ Finished(nticks)
    /\ drv' = IF tk[nticks].pc = "raised" THEN "exited" ELSE "sleep"
    /\ UNCHANGED <<lif, listeners, nticks, tk, latest_estimate, latest_context, timeline, calls, q>>

\* the awaited tick returned, or raised and the exception was printed: loop again
DriverResume ==
    /\ drv = "await"
    /\ lif = "serving"
    /\ nticks > 0
    /\ Finished(nticks)
    /\ drv' = "sleep"
    /\ UNCHANGED <<lif, listeners, nticks, tk, latest_estimate, latest_context, timeline, calls, q>>

\* ---------------------------------------------------------------- tick thread
\* a write to the latest cell during a state query
Dirty == IF q.pc \in {"idle", "done"} THEN q ELSE [q EXCEPT !.clean = FALSE]

\* extract_features, estimate, classify: the estimate and context of tick n
TickInfer(n) ==
    /\ tk[n].pc = "infer"
    /\ tk' = [tk EXCEPT ![n].pc = "set_est"]
    /\ UNCHANGED <<lif, listeners, drv, nticks, latest_estimate, latest_context, timeline, calls, q>>

\* the bug of a tick that caches only after persisting: a failed append skips it
TickCacheDeferred(n) ==
    /\ tk[n].pc = "set_est"
    /\ tk' = [tk EXCEPT ![n].pc = "append"]
    /\ UNCHANGED <<lif, listeners, drv, nticks, latest_estimate, latest_context, timeline, calls, q>>

TickSetEstimate(n) ==
    /\ tk[n].pc = "set_est"
    /\ latest_estimate' = n
    /\ q' = Dirty
    /\ tk' = [tk EXCEPT ![n].pc = "set_ctx"]
    /\ UNCHANGED <<lif, listeners, drv, nticks, latest_context, timeline, calls>>

TickSetContext(n) ==
    /\ tk[n].pc = "set_ctx"
    /\ latest_context' = n
    /\ q' = Dirty
    /\ tk' = [tk EXCEPT ![n].pc = "append"]
    /\ UNCHANGED <<lif, listeners, drv, nticks, latest_estimate, timeline, calls>>

TickAppendOk(n) ==
    /\ tk[n].pc = "append"
    /\ timeline' = Append(timeline, n)
    /\ tk' = [tk EXCEPT ![n] = [pc |-> "notify", i |-> 1]]
    /\ UNCHANGED <<lif, listeners, drv, nticks, latest_estimate, latest_context, calls, q>>

\* the store raises (sqlite3.Error): nothing in tick() catches it
TickAppendFails(n) ==
    /\ tk[n].pc = "append"
    /\ tk' = [tk EXCEPT ![n].pc = "raised"]
    /\ UNCHANGED <<lif, listeners, drv, nticks, latest_estimate, latest_context, timeline, calls, q>>

\* one turn of the listener loop: the listener returns or raises an Exception
TickNotify(n) ==
    /\ tk[n].pc = "notify"
    /\ tk[n].i <= Len(listeners)
    /\ \E r \in BOOLEAN :
          calls' = Append(calls, [tick |-> n, listener |-> listeners[tk[n].i],
                                  raised |-> r, appended |-> n \in Range(timeline)])
    /\ tk' = [tk EXCEPT ![n].i = @ + 1]
    /\ UNCHANGED <<lif, listeners, drv, nticks, latest_estimate, latest_context, timeline, q>>

TickReturn(n) ==
    /\ tk[n].pc = "notify"
    /\ tk[n].i > Len(listeners)
    /\ tk' = [tk EXCEPT ![n] = [pc |-> "returned", i |-> 0]]
    /\ UNCHANGED <<lif, listeners, drv, nticks, latest_estimate, latest_context, timeline, calls, q>>

\* --------------------------------------------------------------- GET /state
\* the tick whose append failed and that is the last one started, or 0
FailedLast ==
    IF nticks > 0 /\ tk[nticks].pc = "raised" /\ nticks \notin Range(timeline)
    THEN nticks ELSE 0

QueryStart ==
    /\ lif = "serving"
    /\ q.pc \in {"idle", "done"}
    /\ q' = [IdleQuery EXCEPT !.pc = "rd_score", !.after = FailedLast]
    /\ UNCHANGED <<lif, listeners, drv, nticks, tk, latest_estimate, latest_context, timeline, calls>>

QueryReadScore ==
    /\ q.pc = "rd_score"
    /\ q' = [q EXCEPT !.pc = "rd_ctx", !.load_score = latest_estimate]
    /\ UNCHANGED <<lif, listeners, drv, nticks, tk, latest_estimate, latest_context, timeline, calls>>

QueryReadContext ==
    /\ q.pc = "rd_ctx"
    /\ q' = [q EXCEPT !.pc = "rd_conf", !.context = latest_context]
    /\ UNCHANGED <<lif, listeners, drv, nticks, tk, latest_estimate, latest_context, timeline, calls>>

QueryReadConfidence ==
    /\ q.pc = "rd_conf"
    /\ q' = [q EXCEPT !.pc = "rd_est", !.confidence = latest_estimate]
    /\ UNCHANGED <<lif, listeners, drv, nticks, tk, latest_estimate, latest_context, timeline, calls>>

QueryReadBreakdown ==
    /\ q.pc = "rd_est"
    /\ q' = [q EXCEPT !.pc = "done", !.breakdown = latest_estimate]
    /\ UNCHANGED <<lif, listeners, drv, nticks, tk, latest_estimate, latest_context, timeline, calls>>

\* ---------------------------------------------------------- signal processor
\* push: self._events.append(event), then _evict_stale()
PushStart(w, ts, type) ==
    /\ wk[w].pc \in {"idle", "raised"}
    /\ pushed < MaxPush
    /\ pushed' = pushed + 1
    /\ events' = Append(events, [id |-> pushed + 1, ts |-> ts, type |-> type])
    /\ wk' = [wk EXCEPT ![w] = [pc |-> "cutoff", cutoff |-> 0,
                                ev |-> [id |-> pushed + 1, ts |-> ts, type |-> type,
                                        stale |-> ~Fresh(ts, now)]]]
    /\ UNCHANGED <<now, completed, removedFresh, tickSeen,
                   snapshot, snapNow, features>>

\* tick() calls extract_features, which enters _evict_stale()
ExtractStart ==
    /\ wk["tick"].pc \in {"idle", "done", "raised"}
    /\ wk' = [wk EXCEPT !["tick"] = [pc |-> "cutoff", cutoff |-> 0, ev |-> NoEvent]]
    /\ tickSeen' = completed
    /\ snapshot' = <<>>
    /\ snapNow' = 0
    /\ features' = ExtractCounts(<<>>)
    /\ UNCHANGED <<now, events, pushed, completed, removedFresh>>

\* cutoff = time.time() - self.window_seconds
EvictCutoff(w) ==
    /\ wk[w].pc = "cutoff"
    /\ wk' = [wk EXCEPT ![w].pc = "test", ![w].cutoff = now - window_seconds]
    /\ UNCHANGED <<now, events, pushed, completed, removedFresh, tickSeen,
                   snapshot, snapNow, features>>

\* _evict_stale returns: push returns after it, extract_features goes on
EvictReturn(w) ==
    IF w = "tick"
    THEN /\ wk' = [wk EXCEPT ![w].pc = "snapshot"]
         /\ UNCHANGED completed
    ELSE /\ wk' = [wk EXCEPT ![w] = [pc |-> "idle", cutoff |-> 0, ev |-> NoEvent]]
         /\ completed' = completed \cup
                {[id |-> wk[w].ev.id, ts |-> wk[w].ev.ts, stale |-> wk[w].ev.stale]}

\* the loop test of _evict_stale, first half: "while self._events"
EvictTest(w) ==
    /\ wk[w].pc = "test"
    /\ IF events # <<>>
       THEN /\ wk' = [wk EXCEPT ![w].pc = "head"]
            /\ UNCHANGED completed
       ELSE EvictReturn(w)
    /\ UNCHANGED <<now, events, pushed, removedFresh, tickSeen,
                   snapshot, snapNow, features>>

\* second half: "self._events[0].timestamp < cutoff"; IndexError on a deque
\* another thread has emptied since the first half
EvictHead(w) ==
    /\ wk[w].pc = "head"
    /\ IF events = <<>>
       THEN /\ wk' = [wk EXCEPT ![w] = [pc |-> "raised", cutoff |-> 0, ev |-> NoEvent]]
            /\ UNCHANGED completed
       ELSE IF Head(events).ts < wk[w].cutoff
       THEN /\ wk' = [wk EXCEPT ![w].pc = "pop"]
            /\ UNCHANGED completed
       ELSE EvictReturn(w)
    /\ UNCHANGED <<now, events, pushed, removedFresh, tickSeen,
                   snapshot, snapNow, features>>

CompletedIds == {e.id : e \in completed}

\* self._events.popleft(): IndexError on an empty deque, which nothing catches
EvictPop(w) ==
    /\ wk[w].pc = "pop"
    /\ IF events = <<>>
       THEN /\ wk' = [wk EXCEPT ![w] = [pc |-> "raised", cutoff |-> 0, ev |-> NoEvent]]
            /\ UNCHANGED <<events, removedFresh>>
       ELSE /\ wk' = [wk EXCEPT ![w].pc = "test"]
            /\ events' = Tail(events)
            /\ removedFresh' = removedFresh \cup
                   (IF Fresh(Head(events).ts, now) /\ Head(events).id \in CompletedIds
                    THEN {Head(events).id} ELSE {})
    /\ UNCHANGED <<now, pushed, completed, tickSeen,
                   snapshot, snapNow, features>>

\* events = list(self._events), and the counts taken over it
ExtractSnapshot ==
    /\ wk["tick"].pc = "snapshot"
    /\ wk' = [wk EXCEPT !["tick"].pc = "done"]
    /\ snapshot' = events
    /\ snapNow' = now
    /\ features' = ExtractCounts(events)
    /\ UNCHANGED <<now, events, pushed, completed, removedFresh, tickSeen>>

\* time passes
ClockAdvance ==
    /\ now < MaxTime
    /\ now' = now + 1
    /\ UNCHANGED <<events, pushed, wk, completed, removedFresh, tickSeen,
                   snapshot, snapNow, features>>

\* ------------------------------------------------- estimator and classifier
Min(a, b) == IF a <= b THEN a ELSE b
Max(a, b) == IF a >= b THEN a ELSE b

\* a score passed on as it is, without the clamp
NoClamp(x) == x

\* max(0.0, min(x, 1.0))
Clamp01(x) == Max(0, Min(x, Unit))

\* SignalFeatures, rates per minute, fractions and minutes all in hundredths
Features(tab, err, win, burst, idle, scroll, dur, entropy) ==
    [tab_switch_rate |-> tab, compile_error_rate |-> err,
     window_change_rate |-> win, typing_burst_score |-> burst,
     idle_fraction |-> idle, scroll_velocity_norm |-> scroll,
     session_duration_min |-> dur, task_switch_entropy |-> entropy]

\* the feature vectors extract_features hands to a tick: an empty window, calm
\* work, errors with switching, every rate beyond its cap, a long idle session,
\* a short pause, restless switching
FeatureInputs ==
    { Features(0, 0, 0, 0, 0, 0, 0, 0),
      Features(100, 0, 100, 50, 0, 30, 3000, 20),
      Features(600, 300, 500, 80, 10, 50, 4500, 90),
      Features(2500, 900, 4000, 100, 0, 100, 20000, 100),
      Features(0, 0, 0, 0, 50, 0, 7000, 0),
      Features(200, 0, 100, 0, 30, 0, 1000, 40),
      Features(400, 0, 300, 20, 0, 10, 1000, 60) }

\* what the trained regressor may predict, in units of 0.0001
MLRaw == {0 - 2500, 5000, 12500}

_INTRINSIC_WEIGHTS ==
    << <<"compile_error_rate", 40>>, <<"typing_burst_score", 35>>,
       <<"scroll_velocity_norm", 25>> >>
_EXTRANEOUS_WEIGHTS ==
    << <<"tab_switch_rate", 45>>, <<"window_change_rate", 30>>,
       <<"task_switch_entropy", 25>> >>
_GERMANE_WEIGHTS ==
    << <<"idle_fraction", 0 - 60>>, <<"session_duration_min", 40>> >>

\* the value of one feature as _weighted uses it, in units of 0.0001
Normalised(f, name) ==
    CASE name = "session_duration_min" -> Min((f[name] * 100) \div 120, Unit)
      [] name = "tab_switch_rate" -> Min((f[name] * 100) \div 10, Unit)
      [] name = "window_change_rate" -> Min((f[name] * 100) \div 15, Unit)
      [] name = "compile_error_rate" -> Min((f[name] * 100) \div 5, Unit)
      [] OTHER -> f[name] * 100

Abs(x) == IF x < 0 THEN 0 - x ELSE x

RECURSIVE total_weight(_, _)
total_weight(W, i) == IF i = 0 THEN 0 ELSE total_weight(W, i - 1) + Abs(W[i][2])

RECURSIVE WeightedSum(_, _, _)
WeightedSum(f, W, i) ==
    IF i = 0 THEN 0
    ELSE WeightedSum(f, W, i - 1) + W[i][2] * Normalised(f, W[i][1])

_weighted(f, W) ==
    Clamp01(WeightedSum(f, W, Len(W)) \div total_weight(W, Len(W)))

\* exponential moving average with alpha = 0.3 over the last smoothed score
Smoothed(score, hist) ==
    IF hist # <<>> THEN (3 * score + 7 * hist[Len(hist)]) \div 10 ELSE score

\* a history that is never cut
RememberAll(hist, score) == Append(hist, score)

\* _history.append(score), then pop(0) beyond history_size
Remember(hist, score) ==
    IF Len(hist) + 1 > history_size THEN Tail(Append(hist, score))
    ELSE Append(hist, score)

Confidence(hist) == Min((Len(hist) * Unit) \div history_size, Unit)

\* LoadEstimator.estimate: the estimate and the history it leaves
estimate(f, hist) ==
    LET intrinsic == _weighted(f, _INTRINSIC_WEIGHTS)
        extraneous == _weighted(f, _EXTRANEOUS_WEIGHTS)
        germane_component == _weighted(f, _GERMANE_WEIGHTS)
        raw == (62 * extraneous + 28 * intrinsic + 10 * germane_component) \div 100
        score == Smoothed(Clamp01(raw), hist)
        h == Remember(hist, score)
    IN [est |-> [score |-> score, intrinsic |-> intrinsic,
                 extraneous |-> extraneous, germane |-> germane_component,
                 confidence |-> Confidence(h)],
        history |-> h]

\* MLLoadEstimator._predict_ml with the regressor predicting raw
_predict_ml(f, raw, hist) ==
    LET raw_score == Smoothed(Clamp01(raw), hist)
        h == Remember(hist, raw_score)
        tab_norm == Normalised(f, "tab_switch_rate")
        err_norm == Normalised(f, "compile_error_rate")
    IN [est |-> [score |-> raw_score,
                 intrinsic |-> (6 * err_norm + 4 * f.typing_burst_score * 100) \div 10,
                 extraneous |-> (6 * tab_norm + 4 * f.task_switch_entropy * 100) \div 10,
                 germane |-> Clamp01((f.session_duration_min * 100) \div 120
                                     - f.idle_fraction * 100),
                 confidence |-> Confidence(h)],
        history |-> h]

CognitiveContext ==
    {"deep_focus", "shallow_work", "stuck", "fatigue", "recovering", "unknown"}

\* a ladder that tries the fatigue rules before the stuck rules
classifyFatigueFirst(f, load_score) ==
    CASE load_score > 8500 /\ f.session_duration_min > 9000 -> "fatigue"
      [] f.idle_fraction > 40 /\ f.session_duration_min > 6000 -> "fatigue"
      [] OTHER ->
    CASE f.compile_error_rate > 200 /\ f.tab_switch_rate > 500 -> "stuck"
      [] f.task_switch_entropy > 80 /\ load_score > 7000 -> "stuck"
      [] OTHER ->
    CASE /\ f.tab_switch_rate < 150
         /\ f.window_change_rate < 200
         /\ f.task_switch_entropy < 30
         /\ 3000 < load_score
         /\ load_score < 7500 -> "deep_focus"
      [] OTHER ->
    CASE f.idle_fraction > 20 /\ load_score < 4000 -> "recovering"
      [] OTHER ->
    CASE f.tab_switch_rate > 300 \/ f.task_switch_entropy > 50 -> "shallow_work"
      [] OTHER -> "unknown"

\* ContextClassifier.classify: the first rule of the ladder that applies
classify(f, load_score) ==
    CASE f.compile_error_rate > 200 /\ f.tab_switch_rate > 500 -> "stuck"
      [] f.task_switch_entropy > 80 /\ load_score > 7000 -> "stuck"
      [] OTHER ->
    CASE load_score > 8500 /\ f.session_duration_min > 9000 -> "fatigue"
      [] f.idle_fraction > 40 /\ f.session_duration_min > 6000 -> "fatigue"
      [] OTHER ->
    CASE /\ f.tab_switch_rate < 150
         /\ f.window_change_rate < 200
         /\ f.task_switch_entropy < 30
         /\ 3000 < load_score
         /\ load_score < 7500 -> "deep_focus"
      [] OTHER ->
    CASE f.idle_fraction > 20 /\ load_score < 4000 -> "recovering"
      [] OTHER ->
    CASE f.tab_switch_rate > 300 \/ f.task_switch_entropy > 50 -> "shallow_work"
      [] OTHER -> "unknown"

\* the arguments classify is called with: every feature it reads on each side
\* of its thresholds and on some of them, and loads from 0.2 to 0.9
ClassifyFeatures ==
    { Features(tab, err, win, 0, idle, 0, dur, entropy) :
        tab \in {100, 150, 400, 600}, err \in {200, 300}, win \in {100, 200},
        idle \in {0, 30, 50}, dur \in {1000, 7000, 10000},
        entropy \in {20, 60, 90} }
ClassifyLoads == {2000, 3000, 5000, 7200, 9000}

\* one call of classify
Classify(f, load_score) ==
    /\ classified = None
    /\ classified' = Some([features |-> f, load_score |-> load_score,
                           label |-> classify(f, load_score)])

\* the feature vectors handed to estimate() one call after another: an empty
\* window, every rate beyond its cap, keystrokes whose interval_ms are -100 and
\* -300 (typing_burst_score -0.5), and an entropy of 2 bits given directly
EstimateInputs ==
    { Features(0, 0, 0, 0, 0, 0, 0, 0),
      Features(2500, 900, 4000, 100, 0, 100, 20000, 100),
      Features(0, 0, 0, 0 - 50, 0, 0, 0, 0),
      Features(1000, 0, 0, 0, 0, 0, 0, 200) }

\* what can be at model_path when the estimator is constructed: no file, a
\* file in a directory the process may not search, a file with joblib not
\* installed, a file that is not a joblib artifact, a file the process may not
\* read, a saved model
Artifacts ==
    {"missing", "unsearchable", "no_joblib", "corrupt", "unreadable", "valid"}

\* _load_model: Path.exists() is False for a missing file and raises
\* PermissionError for a directory that may not be searched; import joblib and
\* joblib.load raise inside the try, whose handler leaves _model None
_load_model(found) ==
    CASE found = "missing" -> [raised |-> FALSE, model |-> FALSE]
      [] found = "unsearchable" -> [raised |-> TRUE, model |-> FALSE]
      [] found \in {"no_joblib", "corrupt", "unreadable"} ->
            [raised |-> FALSE, model |-> FALSE]
      [] OTHER -> [raised |-> FALSE, model |-> TRUE]

\* MLLoadEstimator.__init__
Construct(found) ==
    /\ artifact = None
    /\ LET loaded == _load_model(found)
       IN /\ artifact' = Some([found |-> found, raised |-> loaded.raised])
          /\ model_loaded' = loaded.model
    /\ UNCHANGED <<history, ncalls, persisted, returned>>

\* MLLoadEstimator.estimate on the estimator constructed; of the calls that
\* returned, the last two are kept, each with its features and the path taken
Estimate(f, raw) ==
    /\ artifact # None /\ ~artifact[1].raised
    /\ ncalls < MaxEstimates
    /\ LET r == IF model_loaded THEN _predict_ml(f, raw, history)
                ELSE estimate(f, history)
           result == [call |-> ncalls + 1, features |-> f, estimate |-> r.est,
                      path |-> IF model_loaded THEN "ml" ELSE "v1"]
       IN /\ history' = r.history
          /\ ncalls' = ncalls + 1
          /\ returned' = IF returned = <<>> THEN <<result>>
                         ELSE <<returned[Len(returned)], result>>
    /\ UNCHANGED <<model_loaded, persisted>>

\* TimelineEntry a tick appends; call is the tick() call that wrote it
TickEntry(n, est, context) ==
    [call |-> n, source |-> "engine", event_type |-> "inference_tick",
     load_score |-> est.score, context |-> context]

\* one tick(): extract, estimate, classify, append, return. fails: the append
\* raises, and so does the tick
tick(f, raw, fails) ==
    /\ ncalls < MaxCalls
    /\ LET r == IF model_loaded THEN _predict_ml(f, raw, history)
                ELSE estimate(f, history)
           context == classify(f, r.est.score)
       IN /\ history' = r.history
          /\ ncalls' = ncalls + 1
          /\ IF fails
             THEN UNCHANGED <<persisted, returned>>
             ELSE /\ persisted' = Append(persisted, TickEntry(ncalls + 1, r.est, context))
                  /\ returned' = Append(returned, [call |-> ncalls + 1,
                                                   estimate |-> r.est,
                                                   context |-> context])
    /\ UNCHANGED model_loaded

\* ------------------------------------------------------------ timeline store
\* the timestamps and sources of the entries appended here
Stamps == {0, 1, 2}
Sources == {"engine", "browser"}

Args(since, until, source, limit) ==
    [since |-> since, until |-> until, source |-> source, limit |-> limit]

\* the arguments query is called with
QueryArgs ==
    { Args(None, None, None, 1),
      Args(None, None, None, 2),
      Args(None, None, Some("engine"), 1),
      Args(Some(1), None, None, 2),
      Args(None, Some(0), None, 2),
      Args(None, Some(1), Some("engine"), 2),
      Args(Some(1), Some(1), None, 1),
      Args(Some(0), Some(2), Some("browser"), 2) }

\* the connection of another writer holds the write lock of the database
WriteLocked == \E w \in Writers : wr[w].pc = "inserted"

\* an INSERT that hands out the id of the last row again
AppendInsertSameId(w, ts, source) ==
    /\ issued < MaxAppends
    /\ wr[w].pc = "idle"
    /\ ~WriteLocked
    /\ issued' = issued + 1
    /\ seq' = Max(seq, 1)
    /\ wr' = [wr EXCEPT ![w] = [pc |-> "inserted",
                                row |-> Some([id |-> Max(seq, 1), timestamp |-> ts,
                                              source |-> source])]]
    /\ UNCHANGED <<table, acked, qargs, results>>

\* append, INSERT on the writer's own connection: the row takes the next
\* AUTOINCREMENT id and the connection holds the write lock until it commits
AppendInsert(w, ts, source) ==
    /\ issued < MaxAppends
    /\ wr[w].pc = "idle"
    /\ ~WriteLocked
    /\ issued' = issued + 1
    /\ seq' = seq + 1
    /\ wr' = [wr EXCEPT ![w] = [pc |-> "inserted",
                                row |-> Some([id |-> seq + 1, timestamp |-> ts,
                                              source |-> source])]]
    /\ UNCHANGED <<table, acked, qargs, results>>

\* append, INSERT raises (database is locked, disk error): nothing is stored
\* and the call raises
AppendRaises(w) ==
    /\ issued < MaxAppends
    /\ wr[w].pc = "idle"
    /\ issued' = issued + 1
    /\ UNCHANGED <<table, seq, wr, acked, qargs, results>>

\* a commit that replaces the stored rows by the new one
AppendCommitOverwrites(w) ==
    /\ wr[w].pc = "inserted"
    /\ table' = <<wr[w].row[1]>>
    /\ wr' = [wr EXCEPT ![w].pc = "committed"]
    /\ UNCHANGED <<seq, issued, acked, qargs, results>>

\* _conn after the yield: conn.commit() makes the row visible to every
\* connection and releases the lock
AppendCommit(w) ==
    /\ wr[w].pc = "inserted"
    /\ table' = Append(table, wr[w].row[1])
    /\ wr' = [wr EXCEPT ![w].pc = "committed"]
    /\ UNCHANGED <<seq, issued, acked, qargs, results>>

\* an append that returns without the commit
AppendReturnUncommitted(w) ==
    /\ wr[w].pc \in {"inserted", "committed"}
    /\ acked' = acked \cup {wr[w].row[1]}
    /\ wr' = [wr EXCEPT ![w] = [pc |-> "idle", row |-> None]]
    /\ UNCHANGED <<table, seq, issued, qargs, results>>

\* append returns cur.lastrowid to its caller
AppendReturn(w) ==
    /\ wr[w].pc = "committed"
    /\ acked' = acked \cup {wr[w].row[1]}
    /\ wr' = [wr EXCEPT ![w] = [pc |-> "idle", row |-> None]]
    /\ UNCHANGED <<table, seq, issued, qargs, results>>

\* "if since:", "if until:": a bound is used when it is supplied and not zero
Truthy(o) == o # None /\ o[1] # 0
\* "if source:": a source is used when it is supplied and not empty
TruthyText(o) == o # None /\ o[1] # ""

\* the WHERE clause query builds
Selected(row, a) ==
    /\ Truthy(a.since) => row.timestamp >= a.since[1]
    /\ Truthy(a.until) => row.timestamp <= a.until[1]
    /\ TruthyText(a.source) => row.source = a.source[1]

\* ORDER BY timestamp DESC LIMIT ?: every list of the selected rows, newest
\* first, cut at the limit; the order of rows of equal timestamp is not fixed
\* by the statement, and a negative limit is no limit
QueryResults(rows, a) ==
    LET M == {r \in Range(rows) : Selected(r, a)}
        k == IF a.limit < 0 \/ a.limit > Cardinality(M)
             THEN Cardinality(M) ELSE a.limit
    IN {s \in [1..k -> M] :
          /\ \A i, j \in 1..k : i < j =>
                s[i] # s[j] /\ s[i].timestamp >= s[j].timestamp
          /\ \A r \in M : (\A i \in 1..k : s[i] # r) =>
                \A i \in 1..k : s[i].timestamp >= r.timestamp}

\* query(since, until, source, limit): one SELECT on a new connection, which
\* reads the committed rows
Query(a) ==
    /\ qargs = None \/ qargs = Some(a)
    /\ qargs' = Some(a)
    /\ \E res \in QueryResults(table, a) :
          LET result == [rows |-> res, read |-> table, acked |-> acked]
          IN results' = IF results = <<>> THEN <<result>>
                        ELSE <<results[Len(results)], result>>
    /\ UNCHANGED <<table, seq, wr, issued, acked>>

\* --------------------------------------------------------- session analytics
\* an engine tick as tick() appends it
Tick(score, context) ==
    [source |-> "engine", event_type |-> "inference_tick",
     load_score |-> score, context |-> context]

\* the entries of the tables get_sessions reads: engine ticks of three contexts
\* and two scores, and a tick-like entry of another source
TickKinds ==
    { Tick(3333, "deep_focus"), Tick(Unit, "stuck"), Tick(3333, "shallow_work") }
OtherKinds ==
    {[source |-> "browser", event_type |-> "inference_tick",
      load_score |-> Unit, context |-> "stuck"]}

\* their timestamps in seconds: one minute apart, and one second more
SessionStamps == {0, 60, 61}

TimelineEntry(id, ts, kind) ==
    [id |-> id, timestamp |-> ts, source |-> kind.source,
     event_type |-> kind.event_type, load_score |-> kind.load_score,
     context |-> kind.context]

\* append of one entry, from the INSERT to the return, by a single writer
\* whose clock does not go back; the table is filled before get_sessions runs
append(ts, kind) ==
    /\ Len(table) < MaxStored
    /\ sargs = None
    /\ table # <<>> => ts >= table[Len(table)].timestamp
    /\ table' = Append(table, TimelineEntry(seq + 1, ts, kind))
    /\ seq' = seq + 1
    /\ acked' = acked \cup {TimelineEntry(seq + 1, ts, kind)}
    /\ UNCHANGED <<wr, issued, qargs, results>>

\* limit=10_000 of the query of get_sessions, in the scale of these tables
SessionsQueryLimit == 3

\* the arguments get_sessions is called with: since, until, gap_minutes
SessionArgs ==
    { <<None, None, 1>>, <<None, None, 0 - 1>>,
      <<Some(60), None, 1>>, <<None, Some(60), 0>> }

\* the entries left newest first
NotReversed(s) == s

\* reversed(entries)
Reverse(s) == [i \in 1..Len(s) |-> s[Len(s) + 1 - i]]

\* the loop over ticks[1:] with a split at every gap of at least gap_s
RECURSIVE GroupTicksNoGap(_, _, _)
GroupTicksNoGap(ticks, gap_s, i) ==
    IF i = 1 THEN << <<ticks[1]>> >>
    ELSE LET before == GroupTicksNoGap(ticks, gap_s, i - 1)
             current == before[Len(before)]
         IN IF ticks[i].timestamp - current[Len(current)].timestamp >= gap_s
            THEN Append(before, <<ticks[i]>>)
            ELSE [before EXCEPT ![Len(before)] = Append(current, ticks[i])]

\* the loop over ticks[1:]: raw_sessions after the first i ticks, the last
\* element being current
RECURSIVE GroupTicks(_, _, _)
GroupTicks(ticks, gap_s, i) ==
    IF i = 1 THEN << <<ticks[1]>> >>
    ELSE LET before == GroupTicks(ticks, gap_s, i - 1)
             current == before[Len(before)]
         IN IF ticks[i].timestamp - current[Len(current)].timestamp > gap_s
            THEN Append(before, <<ticks[i]>>)
            ELSE [before EXCEPT ![Len(before)] = Append(current, ticks[i])]

\* round(n / d, ...) to the unit n is counted in: to nearest, halves to even
RoundDiv(n, d) ==
    LET quot == n \div d
        rest == n % d
    IN IF 2 * rest < d THEN quot
       ELSE IF 2 * rest > d THEN quot + 1
       ELSE IF quot % 2 = 0 THEN quot ELSE quot + 1

\* ctx_counts: the contexts in the order they are first seen, with their counts
RECURSIVE CtxCounts(_, _)
CtxCounts(ticks, i) ==
    IF i = 0 THEN <<>>
    ELSE LET before == CtxCounts(ticks, i - 1)
             at == {j \in 1..Len(before) : before[j].context = ticks[i].context}
         IN IF at = {}
            THEN Append(before, [context |-> ticks[i].context, count |-> 1])
            ELSE [j \in 1..Len(before) |->
                    IF j \in at THEN [before[j] EXCEPT !.count = @ + 1]
                    ELSE before[j]]

\* a max that returns the last of the keys with the largest count
RECURSIVE LastMax(_, _)
LastMax(counts, i) ==
    IF i = 1 THEN 1
    ELSE LET best == LastMax(counts, i - 1)
         IN IF counts[i].count >= counts[best].count THEN i ELSE best

\* max(ctx_counts, key=...): the position of the first key with the largest count
RECURSIVE FirstMax(_, _)
FirstMax(counts, i) ==
    IF i = 1 THEN 1
    ELSE LET best == FirstMax(counts, i - 1)
         IN IF counts[i].count > counts[best].count THEN i ELSE best

RECURSIVE SumScores(_, _)
SumScores(ticks, i) ==
    IF i = 0 THEN 0 ELSE SumScores(ticks, i - 1) + ticks[i].load_score

\* the least of the scores
LeastScore(ticks) ==
    CHOOSE x \in {ticks[i].load_score : i \in 1..Len(ticks)} :
        \A i \in 1..Len(ticks) : x <= ticks[i].load_score

\* max(scores)
PeakScore(ticks) ==
    CHOOSE x \in {ticks[i].load_score : i \in 1..Len(ticks)} :
        \A i \in 1..Len(ticks) : x >= ticks[i].load_score

\* _build_session: duration_minutes in hundredths of a minute, scores and
\* shares in units of 0.0001
_build_session(idx, ticks) ==
    LET ctx_counts == CtxCounts(ticks, Len(ticks))
        total == Len(ticks)
    IN [session_index |-> idx,
        start_ts |-> ticks[1].timestamp,
        end_ts |-> ticks[Len(ticks)].timestamp,
        duration_minutes |->
            RoundDiv((ticks[Len(ticks)].timestamp - ticks[1].timestamp) * 100, 60),
        tick_count |-> total,
        avg_load_score |-> RoundDiv(SumScores(ticks, Len(ticks)), Len(ticks)),
        peak_load_score |-> PeakScore(ticks),
        context_distribution |->
            [j \in 1..Len(ctx_counts) |->
                [context |-> ctx_counts[j].context,
                 share |-> RoundDiv(ctx_counts[j].count * Unit, total)]],
        dominant_context |-> ctx_counts[FirstMax(ctx_counts, Len(ctx_counts))].context]

\* get_sessions(since, until, gap_minutes), called once on the table of the run
get_sessions(since, until, gap_minutes) ==
    /\ sargs = None
    /\ sargs' = Some(<<since, until, gap_minutes>>)
    /\ \E entries \in QueryResults(table,
                       Args(since, until, Some("engine"), SessionsQueryLimit)) :
          LET ticks == SelectSeq(Reverse(entries),
                                 LAMBDA e : e.event_type = "inference_tick")
              raw == IF ticks = <<>> THEN <<>>
                     ELSE GroupTicks(ticks, gap_minutes * 60, Len(ticks))
          IN /\ raw_sessions' = raw
             /\ sessions' = [idx \in 1..Len(raw) |-> _build_session(idx - 1, raw[idx])]
    /\ UNCHANGED stVars

\* ------------------------------------------------------------ daily statistics
\* the entries of the tables get_daily_stats reads: engine ticks of two contexts
DailyKinds == { Tick(3333, "deep_focus"), Tick(Unit, "stuck") }

\* their timestamps and the readings of the clock, in seconds: 100 s before the
\* end of the day 1970-01-01, midnight, and one minute into 1970-01-02
DailyStamps == {86300, 86400, 86460}

\* the arguments get_daily_stats is called with: since, until, gap_minutes
DailyArgs ==
    { <<None, None, 1>>, <<None, Some(86460), 2>>, <<Some(86400), Some(86460), 1>> }

\* limit=50_000 of the query of get_daily_stats, in the scale of these tables
DailyQueryLimit == 3

\* datetime.fromtimestamp(ts, tz=timezone.utc).strftime("%Y-%m-%d"): the
\* calendar day, counted from 1970-01-01; the strings sort as the days do
UtcDay(ts) == ts \div 86400

\* sorted(by_date.keys())
RECURSIVE SortedDays(_)
SortedDays(days) ==
    IF days = {} THEN <<>>
    ELSE LET first == CHOOSE d \in days : \A e \in days : d <= e
         IN <<first>> \o SortedDays(days \ {first})

\* what get_sessions can return on these rows: one list of summaries for each
\* list of rows its query can return
SessionLists(rows, since, until, gap_minutes) ==
    { LET ticks == SelectSeq(Reverse(entries),
                             LAMBDA e : e.event_type = "inference_tick")
          raw == IF ticks = <<>> THEN <<>>
                 ELSE GroupTicks(ticks, gap_minutes * 60, Len(ticks))
      IN [idx \in 1..Len(raw) |-> _build_session(idx - 1, raw[idx])] :
      entries \in QueryResults(rows,
                     Args(since, until, Some("engine"), SessionsQueryLimit)) }

RECURSIVE SumDurations(_, _)
SumDurations(day_sessions, i) ==
    IF i = 0 THEN 0
    ELSE SumDurations(day_sessions, i - 1) + day_sessions[i].duration_minutes

\* a denominator that counts the contexts of the day
DistinctContexts(day_ticks) == Len(CtxCounts(day_ticks, Len(day_ticks)))

\* total = len(day_ticks)
DayTotal(day_ticks) == Len(day_ticks)

\* one DailyStats record. Minutes are in tenths (round(.., 1)) of the sum of
\* the sessions' duration_minutes, which are hundredths; avg_load_score and the
\* shares of context_distribution are not rounded and are kept as fractions
DailyStats(day, day_ticks, day_sessions) ==
    LET ctx_counts == CtxCounts(day_ticks, Len(day_ticks))
        total == DayTotal(day_ticks)
        total_session_min == SumDurations(day_sessions, Len(day_sessions))
        focus == Cardinality({i \in 1..Len(day_ticks) :
                                 day_ticks[i].context = "deep_focus"})
    IN [date |-> day,
        tick_count |-> total,
        session_count |-> Len(day_sessions),
        avg_load_score |-> <<SumScores(day_ticks, Len(day_ticks)), Len(day_ticks)>>,
        peak_load_score |-> PeakScore(day_ticks),
        total_session_minutes |-> RoundDiv(total_session_min, 10),
        focus_minutes |-> RoundDiv(total_session_min * focus, total * 10),
        context_distribution |->
            [j \in 1..Len(ctx_counts) |->
                [context |-> ctx_counts[j].context,
                 share |-> <<ctx_counts[j].count, total>>]]]

\* the loop over sorted(by_date.keys())
DailyResult(ticks, found) ==
    LET days == SortedDays({UtcDay(ticks[i].timestamp) : i \in 1..Len(ticks)})
    IN [k \in 1..Len(days) |->
          DailyStats(days[k],
                     SelectSeq(ticks, LAMBDA t : UtcDay(t.timestamp) = days[k]),
                     SelectSeq(found, LAMBDA s : UtcDay(s.start_ts) = days[k]))]

\* append while the clock runs: time.time() does not go back
TimedAppend(ts, kind) ==
    /\ daily.pc # "done"
    /\ ts >= clock
    /\ clock' = ts
    /\ append(ts, kind)
    /\ UNCHANGED daily

\* get_daily_stats up to the end of its own query: the defaults of since and
\* until from the clock, the rows read, the ticks oldest first, and the return
\* of [] when there is none
DailyQuery(since, until, gap_minutes) ==
    /\ daily.pc = "idle"
    /\ \E t \in DailyStamps :
          /\ t >= clock
          /\ clock' = t
          /\ LET s == IF since = None THEN Some(t - 7 * 24 * 3600) ELSE since
                 u == IF until = None THEN Some(t) ELSE until
             IN \E entries \in QueryResults(table,
                                  Args(s, u, Some("engine"), DailyQueryLimit)) :
                  LET ticks == SelectSeq(Reverse(entries),
                                   LAMBDA e : e.event_type = "inference_tick")
                  IN daily' = [pc |-> IF ticks = <<>> THEN "done" ELSE "queried",
                               since |-> s, until |-> u,
                               gap_minutes |-> gap_minutes,
                               read |-> table, ticks |-> ticks,
                               found |-> <<>>, stats |-> <<>>]
    /\ UNCHANGED stVars

\* the rest of get_daily_stats: the call of get_sessions, which reads the
\* table again, and the records of the days
DailySessions ==
    /\ daily.pc = "queried"
    /\ \E found \in SessionLists(table, daily.since, daily.until, daily.gap_minutes) :
          daily' = [daily EXCEPT !.pc = "done", !.found = found,
                                 !.stats = DailyResult(daily.ticks, found)]
    /\ UNCHANGED <<clock, stVars>>

\* ------------------------------------------------------- telemetry ingestion
\* TelemetryEventIn bodies: a browser tab switch, an IDE keystroke with a
\* timestamp before the window, an event of an unknown source, and a raw type
\* the parser of its source does not know
EventIn(source, type, timestamp) ==
    [source |-> source, type |-> type, timestamp |-> timestamp]
EventIns ==
    { EventIn("browser", "TAB_SWITCH", 0), EventIn("ide", "KEYSTROKE", 0 - 5),
      EventIn("toaster", "TAB_SWITCH", 0), EventIn("browser", "KEYSTROKE", 0) }

_KNOWN_SOURCES == {"browser", "ide", "desktop", "lms"}

\* _parse_event: the parser of the source and its table of raw types, for the
\* raw types of EventIns; None for a type the parser does not know and for a
\* source without a parser
_parse_event(e) ==
    LET internal_type ==
            CASE e.source = "browser" /\ e.type = "TAB_SWITCH" -> "tab_switch"
              [] e.source = "ide" /\ e.type = "KEYSTROKE" -> "keystroke"
              [] e.source = "lms" /\ e.type = "TAB_SWITCH" -> "tab_switch"
              [] OTHER -> ""
    IN IF internal_type = "" THEN None
       ELSE Some([source |-> e.source, event_type |-> internal_type,
                  ts |-> e.timestamp])

\* the bodies of POST /telemetry/batch: events that are accepted and events
\* of an unknown source
Batches ==
    UNION {[1..k -> {e \in EventIns : e.type = "TAB_SWITCH" \/ e.source = "ide"}] :
              k \in 0..MaxBatch}

\* a request arrives, the producer's last one being answered: the one
\* POST /telemetry/batch of the one producer, a POST /telemetry/event of the other
Receive(p, body) ==
    /\ reqs[p].pc \in {"idle", "done"}
    /\ reqs[p].n < (IF p = "batch" THEN 1 ELSE MaxRequests)
    /\ reqs' = [reqs EXCEPT ![p] =
                   [n |-> reqs[p].n + 1, pc |-> "handler", body |-> body, i |-> 1,
                    accepted |-> 0, status |-> 0, reply |-> None]]
    /\ UNCHANGED <<events, enq>>

\* an ingest_event that pushes the raw event before it validates it
ingest_event_unchecked(p) ==
    /\ p = "event"
    /\ reqs[p].pc = "handler"
    /\ LET e == reqs[p].body[1]
       IN /\ events' = Append(events, [source |-> e.source, event_type |-> e.type,
                                       ts |-> e.timestamp])
          /\ reqs' = [reqs EXCEPT ![p].status =
                         IF e.source \notin _KNOWN_SOURCES THEN 400
                         ELSE IF _parse_event(e) = None THEN 422 ELSE 202,
                                  ![p].pc = "done"]
    /\ UNCHANGED enq

\* ingest_event up to its await: 400, 422, or the push handed to the executor
ingest_event(p) ==
    /\ p = "event"
    /\ reqs[p].pc = "handler"
    /\ LET e == reqs[p].body[1]
       IN reqs' = [reqs EXCEPT ![p] =
              IF e.source \notin _KNOWN_SOURCES
              THEN [@ EXCEPT !.status = 400, !.pc = "done"]
              ELSE IF _parse_event(e) = None
              THEN [@ EXCEPT !.status = 422, !.pc = "done"]
              ELSE [@ EXCEPT !.pc = "append"]]
    /\ UNCHANGED <<events, enq>>

\* ingest_batch from one await to the next: the next event of the body is
\* skipped or its push handed to the executor, and after the last event the
\* counts are returned
ingest_batch(p) ==
    /\ p = "batch"
    /\ reqs[p].pc = "handler"
    /\ LET r == reqs[p]
       IN reqs' = [reqs EXCEPT ![p] =
              IF r.i > Len(r.body)
              THEN [@ EXCEPT !.status = 202, !.pc = "done",
                             !.reply = Some([accepted |-> r.accepted,
                                             total |-> Len(r.body)])]
              ELSE IF _parse_event(r.body[r.i]) = None
              THEN [@ EXCEPT !.i = r.i + 1]
              ELSE [@ EXCEPT !.pc = "append"]]
    /\ UNCHANGED <<events, enq>>

\* SignalProcessor.push in the executor thread: self._events.append(event)
PushAppend(p) ==
    /\ reqs[p].pc = "append"
    /\ LET ev == _parse_event(reqs[p].body[reqs[p].i])[1]
       IN /\ events' = Append(events, ev)
          /\ enq' = Append(enq, [producer |-> p, n |-> reqs[p].n, i |-> reqs[p].i])
    /\ reqs' = [reqs EXCEPT ![p].pc = "evict"]

\* the loop of _evict_stale run alone
RECURSIVE _evict_stale(_, _)
_evict_stale(evs, t) ==
    IF evs # <<>> /\ ~Fresh(Head(evs).ts, t) THEN _evict_stale(Tail(evs), t)
    ELSE evs

\* another executor thread is inside _evict_stale as well
Racing(p) == \E o \in Producers \ {p} : reqs[o].pc = "evict"

\* SignalProcessor.push in the executor thread: self._evict_stale(). Alone it
\* removes the stale head of the queue. When another thread is in the loop too
\* and both saw a stale head, this thread's popleft() can come after the
\* other's: it removes one more event, or raises IndexError on the emptied
\* queue, and the request is answered 500
PushEvict(p, raced) ==
    /\ reqs[p].pc = "evict"
    /\ raced => Racing(p) /\ events # <<>> /\ ~Fresh(Head(events).ts, now)
    /\ LET left == _evict_stale(events, now)
       IN IF raced /\ left = <<>>
          THEN /\ events' = left
               /\ reqs' = [reqs EXCEPT ![p].status = 500, ![p].pc = "done"]
          ELSE /\ events' = IF raced THEN Tail(left) ELSE left
               /\ reqs' = [reqs EXCEPT ![p].pc = "resume"]
    /\ UNCHANGED enq

\* a batch count that counts every event of the body
CountEach(r) == r.i

\* accepted += 1
CountAccepted(r) == r.accepted + 1

\* the handler after its await of push_event_async: ingest_event answers 202,
\* ingest_batch counts the event and goes on with the next
Resume(p) ==
    /\ reqs[p].pc = "resume"
    /\ reqs' = [reqs EXCEPT ![p] =
           IF p = "event" THEN [@ EXCEPT !.status = 202, !.pc = "done"]
           ELSE [@ EXCEPT !.accepted = CountAccepted(reqs[p]),
                          !.i = reqs[p].i + 1, !.pc = "handler"]]
    /\ UNCHANGED <<events, enq>>

\* ------------------------------------------------------------ policy engine
ActionDirective(action_type, priority) ==
    [action_type |-> action_type, priority |-> priority]

RoutingRule(context, load_min, load_max, actions) ==
    [context |-> context, load_min |-> load_min, load_max |-> load_max,
     actions |-> actions]

\* the rule registry, in its order; the bounds of a range in units of 1/Unit
RULES ==
    << RoutingRule("stuck", 6000, Unit,
           << ActionDirective("suppress_notifications", 1),
              ActionDirective("suggest_task", 2),
              ActionDirective("shorten_focus_interval", 3),
              ActionDirective("block_distracting_tabs", 2) >>),
       RoutingRule("deep_focus", 3000, 7500,
           << ActionDirective("suppress_notifications", 1),
              ActionDirective("block_distracting_tabs", 2) >>),
       RoutingRule("fatigue", 8500, Unit,
           << ActionDirective("recommend_break", 1),
              ActionDirective("delay_hard_tasks", 2),
              ActionDirective("suppress_notifications", 1) >>),
       RoutingRule("shallow_work", 3000, 7000,
           << ActionDirective("suggest_task", 3) >>),
       RoutingRule("recovering", 0, 3500,
           << ActionDirective("schedule_hard_task", 4),
              ActionDirective("allow_notifications", 5) >>) >>

\* the values of CognitiveContext
CognitiveContexts ==
    {"deep_focus", "shallow_work", "stuck", "fatigue", "recovering", "unknown"}

\* the scores a tick can store (round(score, 4) of a value in [0, 1]): each
\* bound of a range, and its neighbours
PolicyScores ==
    {0, 2999, 3000, 3500, 3501, 5999, 6000, 7000, 7001, 7500, 7501, 8499, 8500, Unit}

\* the loop of evaluate over the first n rules
RECURSIVE matched_actions(_, _, _)
matched_actions(n, score, context) ==
    IF n = 0 THEN <<>>
    ELSE LET rule == RULES[n]
             matched == matched_actions(n - 1, score, context)
         IN IF rule.context # context THEN matched
            ELSE IF rule.load_min <= score /\ score <= rule.load_max
                 THEN matched \o rule.actions
                 ELSE matched

\* a sort that puts an action before those of its priority
insort_left(sorted, a) ==
    LET k == Cardinality({i \in 1..Len(sorted) : sorted[i].priority < a.priority})
    IN SubSeq(sorted, 1, k) \o <<a>> \o SubSeq(sorted, k + 1, Len(sorted))

\* one more action put into a list sorted by priority: list.sort is stable, so
\* the action goes after those of its priority that came before it
insort(sorted, a) ==
    LET k == Cardinality({i \in 1..Len(sorted) : sorted[i].priority <= a.priority})
    IN SubSeq(sorted, 1, k) \o <<a>> \o SubSeq(sorted, k + 1, Len(sorted))

\* matched_actions.sort(key=lambda a: a.priority)
RECURSIVE sort_by_priority(_)
sort_by_priority(actions) ==
    IF actions = <<>> THEN <<>>
    ELSE insort(sort_by_priority(SubSeq(actions, 1, Len(actions) - 1)),
                actions[Len(actions)])

\* PolicyEngine.evaluate
evaluate(score, context) ==
    sort_by_priority(matched_actions(Len(RULES), score, context))

\* tick() stores its estimate; its context is stored by the next statement
StoreEstimate(score, context) ==
    /\ cell.pending = None
    /\ cell' = [cell EXCEPT !.estimate = Some(score), !.pending = Some(context)]
    /\ UNCHANGED directives

StoreContext ==
    /\ cell.pending # None
    /\ cell' = [cell EXCEPT !.context = cell.pending[1], !.pending = None]
    /\ UNCHANGED directives

\* GET /actions/directives: evaluate on the latest estimate and context, and no
\* directive before the first estimate
get_directives ==
    /\ directives' =
           Some([estimate |-> cell.estimate, context |-> cell.context,
                 directives |-> IF cell.estimate # None
                                THEN evaluate(cell.estimate[1], cell.context)
                                ELSE <<>>])
    /\ UNCHANGED cell

\* ------------------------------------------------------------- user settings
\* thresholds in units of 1/Unit
DEFAULTS ==
    [short_break_seconds |-> 300, long_break_seconds |-> 1200,
     high_load_threshold |-> 7500, fatigue_threshold |-> 8500,
     session_gap_minutes |-> 10]

\* the keys of DEFAULTS in the order of the dict
SettingKeys ==
    <<"short_break_seconds", "long_break_seconds", "high_load_threshold",
      "fatigue_threshold", "session_gap_minutes">>

\* JSON values: a number, a string, null
JNum(n) == [t |-> "num", n |-> n, s |-> ""]
JStr(s) == [t |-> "str", n |-> 0, s |-> s]
JNull == [t |-> "null", n |-> 0, s |-> ""]

\* int(s) of a string: its number, or None where int raises ValueError
ParseInt(s) ==
    CASE s = "12" -> Some(12)
      [] s = "600" -> Some(600)
      [] OTHER -> None

\* type(DEFAULTS[k])(v) for the keys whose default is an int: None where it raises
Coerce(v) ==
    CASE v.t = "num" -> Some(v.n)
      [] v.t = "str" -> ParseInt(v.s)
      [] OTHER -> None

\* the members a settings file is written with
FileMembers ==
    { <<k, v>> : k \in {"short_break_seconds", "session_gap_minutes", "theme"},
                 v \in {JNum(12), JStr("600"), JStr("abc"), JNull} }

\* what the file can hold: text that is not JSON, a JSON list, and the objects
\* of up to two members with different keys, in the order of the text
FileContents ==
    {[json |-> "invalid", members |-> <<>>], [json |-> "list", members |-> <<>>]}
    \cup {[json |-> "object", members |-> ms] :
              ms \in {<<>>} \cup {<<m1>> : m1 \in FileMembers}
                     \cup {pair \in FileMembers \X FileMembers : pair[1][1] # pair[2][1]}}

\* the loop of _load over the first n members of the object; raised once a
\* value cannot be coerced, with what was assigned before it kept
RECURSIVE LoadMembers(_, _)
LoadMembers(members, n) ==
    IF n = 0 THEN [current |-> DEFAULTS, raised |-> FALSE]
    ELSE LET before == LoadMembers(members, n - 1)
             k == members[n][1]
             v == Coerce(members[n][2])
         IN IF before.raised \/ k \notin DOMAIN DEFAULTS THEN before
            ELSE IF v = None THEN [before EXCEPT !.raised = TRUE]
            ELSE [before EXCEPT !.current = [@ EXCEPT ![k] = v[1]]]

\* _load: json.loads raises on text that is not JSON, saved.items() on a list
_load(file) ==
    IF file = None THEN [current |-> DEFAULTS, raised |-> FALSE]
    ELSE IF file[1].json # "object" THEN [current |-> DEFAULTS, raised |-> TRUE]
    ELSE LoadMembers(file[1].members, Len(file[1].members))

\* somebody writes data/settings.json before the engine starts
EditFile(content) ==
    /\ imported = None
    /\ settings_file = None
    /\ settings_file' = Some(content)
    /\ UNCHANGED <<_current, imported, got, http>>

\* import engine.settings: the module loads eagerly
ImportSettings ==
    /\ imported = None
    /\ LET r == _load(settings_file)
       IN /\ _current' = r.current
          /\ imported' = Some([raised |-> r.raised])
    /\ UNCHANGED <<settings_file, got, http>>

\* get_settings(): _current is never empty after the import
get_settings ==
    /\ imported # None
    /\ got' = Some(_current)
    /\ UNCHANGED <<settings_file, _current, imported, http>>

\* update_settings(patch) with patch of one key: the new _current, and the
\* file written from it
update_settings(k, v) ==
    LET current == IF k \in DOMAIN DEFAULTS THEN [_current EXCEPT ![k] = v] ELSE _current
    IN [current |-> current,
        file |-> Some([json |-> "object",
                       members |-> [i \in 1..Len(SettingKeys) |->
                                       <<SettingKeys[i], JNum(current[SettingKeys[i]])>>]])]

\* the prefixes of the routers create_app includes, and its /health route
Routes == {"/state", "/telemetry", "/actions", "/timeline", "/health"}

\* the bounds of session_gap_minutes in SettingsPatch
InRange(v) == 2 <= v /\ v <= 60

\* PUT /settings {session_gap_minutes: v}: 404 without a route, 422 out of range
write_settings(v) ==
    /\ imported # None
    /\ IF "/settings" \notin Routes
       THEN /\ http' = [put |-> Some([v |-> v, status |-> 404, before |-> _current,
                                      settings |-> None]),
                        get |-> None]
            /\ UNCHANGED <<settings_file, _current>>
       ELSE IF ~InRange(v)
       THEN /\ http' = [put |-> Some([v |-> v, status |-> 422, before |-> _current,
                                      settings |-> None]),
                        get |-> None]
            /\ UNCHANGED <<settings_file, _current>>
       ELSE LET u == update_settings("session_gap_minutes", v)
            IN /\ _current' = u.current
               /\ settings_file' = u.file
               /\ http' = [put |-> Some([v |-> v, status |-> 200, before |-> _current,
                                         settings |-> Some(u.current)]),
                           get |-> None]
    /\ UNCHANGED <<imported, got>>

\* GET /settings
read_settings ==
    /\ imported # None
    /\ http.get = None
    /\ http' = [http EXCEPT !.get =
                   IF "/settings" \notin Routes
                   THEN Some([status |-> 404, settings |-> None])
                   ELSE Some([status |-> 200, settings |-> Some(_current)])]
    /\ UNCHANGED <<settings_file, _current, imported, got>>

\* the values put: below, inside and above the range of session_gap_minutes
PutValues == {1, 12, 60, 61}

\* ---------------------------------------------------------------- task queue
\* the tasks the student adds, each once, and the difficulty of each
TaskIds == {"t1", "t2", "t3"}
Difficulty(id) ==
    CASE id = "t1" -> "hard"
      [] id = "t2" -> "easy"
      [] OTHER -> "medium"

\* the load scores of the ticks: low, medium and high
TaskLoads == {2000, 5000, 8000}

\* TaskScheduler.reorder with the settings at their defaults: sorted() by the
\* rank of the difficulty is stable, so the tasks of one difficulty keep
\* their order
reorder(tasks, load_score) ==
    LET priority_order ==
            IF load_score >= DEFAULTS.high_load_threshold
            THEN <<"easy", "review", "medium", "hard">>
            ELSE IF load_score >= 4000
            THEN <<"medium", "hard", "review", "easy">>
            ELSE <<"hard", "medium", "review", "easy">>
        Of(d) == SelectSeq(tasks, LAMBDA id : Difficulty(id) = d)
    IN Of(priority_order[1]) \o Of(priority_order[2])
       \o Of(priority_order[3]) \o Of(priority_order[4])

\* POST /actions/tasks: self._tasks.append(task)
add_task(id) ==
    /\ id \notin ledger.added
    /\ _tasks' = Append(_tasks, id)
    /\ ledger' = [ledger EXCEPT !.added = @ \cup {id}]
    /\ UNCHANGED <<upd, rem>>

\* DELETE /actions/tasks/{id}: the list without the task is built from the
\* list read now
RemoveFilter(id) ==
    /\ rem.pc = "idle"
    /\ id \in ledger.added \ ledger.removing
    /\ rem' = [pc |-> "assign", id |-> id, before |-> Len(_tasks),
               filtered |-> SelectSeq(_tasks, LAMBDA t : t # id)]
    /\ ledger' = [ledger EXCEPT !.removing = @ \cup {id}]
    /\ UNCHANGED <<_tasks, upd>>

\* remove_task: self._tasks = [...], and the answer
RemoveAssign ==
    /\ rem.pc = "assign"
    /\ _tasks' = rem.filtered
    /\ rem' = [pc |-> "idle", id |-> "", filtered |-> <<>>, before |-> 0]
    /\ ledger' = [ledger EXCEPT !.removed = @ \cup {rem.id}]
    /\ UNCHANGED upd

\* complete_current(): self._tasks.pop(0)
complete_current ==
    /\ _tasks # <<>>
    /\ _tasks' = Tail(_tasks)
    /\ ledger' = [ledger EXCEPT !.removing = @ \cup {Head(_tasks)},
                                !.removed = @ \cup {Head(_tasks)}]
    /\ UNCHANGED <<upd, rem>>

\* the tick listener calls update_load: reorder sorts a copy of the list read now
UpdateSort(load_score) ==
    /\ upd.pc = "idle"
    /\ upd' = [pc |-> "assign", sorted |-> reorder(_tasks, load_score)]
    /\ UNCHANGED <<_tasks, rem, ledger>>

\* update_load: self._tasks = the sorted copy
UpdateAssign ==
    /\ upd.pc = "assign"
    /\ _tasks' = upd.sorted
    /\ upd' = [pc |-> "idle", sorted |-> <<>>]
    /\ UNCHANGED <<rem, ledger>>

\* ------------------------------------------------------------------ pomodoro
\* PomodoroState.is_complete at time t; elapsed_seconds is 0 when started_at
\* is None or 0
is_complete(s, t) ==
    /\ s.started_at # None
    /\ (IF s.started_at[1] = 0 THEN 0 ELSE t - s.started_at[1]) >= s.duration_seconds

\* TaskScheduler.suggest_pomodoro_duration with the default thresholds, in
\* units of five minutes
suggest_pomodoro_duration(load_score) ==
    IF load_score >= DEFAULTS.fatigue_threshold THEN 2
    ELSE IF load_score >= DEFAULTS.high_load_threshold THEN 3
    ELSE IF load_score >= 4500 THEN 5
    ELSE 7

\* the state start_work makes at time t
start_work(load_score, t, obj) ==
    [phase |-> "work", started_at |-> Some(t),
     duration_seconds |-> suggest_pomodoro_duration(load_score),
     sessions_completed |-> pstate.sessions_completed, obj |-> obj]

\* the state start_break makes at time t, with the default break lengths
start_break(long, t, obj) ==
    [phase |-> IF long THEN "long_break" ELSE "short_break",
     started_at |-> Some(t),
     duration_seconds |-> (IF long THEN DEFAULTS.long_break_seconds
                           ELSE DEFAULTS.short_break_seconds) \div 300,
     sessions_completed |-> pstate.sessions_completed, obj |-> obj]

\* the load scores tick and start are called with: fatigue and medium load
PomodoroLoads == {9000, 5000}

PomodoroTime ==
    /\ ptime < MaxClock
    /\ ptime' = ptime + 1
    /\ UNCHANGED <<pstate, pth, pledger>>

\* POST /actions/pomodoro/start, sent while the timer is idle: start_work
start_pomodoro(load_score) ==
    /\ pstate.phase = "idle"
    /\ pstate' = start_work(load_score, ptime, pledger.made + 1)
    /\ pledger' = [pledger EXCEPT !.made = @ + 1]
    /\ UNCHANGED <<ptime, pth>>

\* tick: if self.state.is_complete()
TickComplete(t, load_score) ==
    /\ pth[t].pc = "idle"
    /\ IF is_complete(pstate, ptime)
       THEN /\ pth' = [pth EXCEPT ![t] = [pc |-> "phase", load |-> load_score,
                                          was |-> pstate.sessions_completed,
                                          read |-> 0, obj |-> pstate.obj]]
            /\ pledger' = IF pstate.phase = "work"
                          THEN [pledger EXCEPT !.seen = @ \cup {pstate.obj}]
                          ELSE pledger
       ELSE UNCHANGED <<pth, pledger>>
    /\ UNCHANGED <<ptime, pstate>>

\* tick: if self.state.phase == PomodoroPhase.WORK, else start_work
TickPhase(t) ==
    /\ pth[t].pc = "phase"
    /\ IF pstate.phase = "work"
       THEN /\ pth' = [pth EXCEPT ![t].pc = "read"]
            /\ UNCHANGED <<pstate, pledger>>
       ELSE /\ pstate' = start_work(pth[t].load, ptime, pledger.made + 1)
            /\ pledger' = [pledger EXCEPT !.made = @ + 1]
            /\ pth' = [pth EXCEPT ![t].pc = "idle"]
    /\ UNCHANGED ptime

\* tick: self.state.sessions_completed += 1 reads the count of the state object
TickRead(t) ==
    /\ pth[t].pc = "read"
    /\ pth' = [pth EXCEPT ![t] = [@ EXCEPT !.pc = "write",
                                           !.read = pstate.sessions_completed,
                                           !.obj = pstate.obj]]
    /\ UNCHANGED <<ptime, pstate, pledger>>

\* and stores the count plus one in that object, which is self.state unless
\* another thread replaced it since
TickWrite(t) ==
    /\ pth[t].pc = "write"
    /\ pstate' = IF pstate.obj = pth[t].obj
                 THEN [pstate EXCEPT !.sessions_completed = pth[t].read + 1]
                 ELSE pstate
    /\ pth' = [pth EXCEPT ![t].pc = "long"]
    /\ UNCHANGED <<ptime, pledger>>

\* tick: long_break = self.state.sessions_completed % 4 == 0
TickLong(t) ==
    /\ pth[t].pc = "long"
    /\ pth' = [pth EXCEPT ![t] = [@ EXCEPT !.pc = "break",
                                           !.read = pstate.sessions_completed]]
    /\ UNCHANGED <<ptime, pstate, pledger>>

\* tick: self.start_break(long=long_break)
TickBreak(t) ==
    /\ pth[t].pc = "break"
    /\ pstate' = start_break(pth[t].read % 4 = 0, ptime, pledger.made + 1)
    /\ pledger' = [pledger EXCEPT !.breaks = @ + 1, !.made = @ + 1]
    /\ pth' = [pth EXCEPT ![t].pc = "idle"]
    /\ UNCHANGED ptime

\* ------------------------------------------------------------- desktop agent
WindowInfo(app, title) == [app |-> app, title |-> title]

\* what _get_active_window returns: None, two windows of one app, and a window
\* of another app
ActiveWindows ==
    { None, Some(WindowInfo("chrome", "inbox")), Some(WindowInfo("chrome", "docs")),
      Some(WindowInfo("code", "main.py")) }

\* _push_event
DesktopEvent(type, data, poll) == [type |-> type, data |-> data, poll |-> poll]

\* DesktopAgent._tick at time at: the agent afterwards and the events pushed
_tick(a, win, at, poll) ==
    IF win = None THEN [agent |-> a, pushed |-> <<>>]
    ELSE IF win[1].app # a._last_app
         THEN [agent |-> [a EXCEPT !._last_app = win[1].app,
                                   !._last_active_at = at, !._is_idle = FALSE],
               pushed |-> <<DesktopEvent("WINDOW_FOCUS", win, poll)>>
                          \o (IF a._is_idle THEN <<DesktopEvent("MOUSE_ACTIVE", None, poll)>>
                              ELSE <<>>)]
         ELSE IF at - a._last_active_at >= idle_threshold_s /\ ~a._is_idle
         THEN [agent |-> [a EXCEPT !._is_idle = TRUE],
               pushed |-> <<DesktopEvent("MOUSE_IDLE", None, poll)>>]
         ELSE [agent |-> a, pushed |-> <<>>]

\* one turn of the loop of run: _tick, and _flush on every fifth turn, which
\* posts the buffer and clears it; the polls are one second apart
Poll(win) ==
    /\ Len(polls) < MaxPolls
    /\ LET poll == Len(polls) + 1
           r == _tick(agent, win, poll, poll)
           flush == agent.flush_counter + 1 >= 5
       IN /\ agent' = [r.agent EXCEPT
                          !._buffer = IF flush THEN <<>> ELSE r.agent._buffer \o r.pushed,
                          !.flush_counter = IF flush THEN 0 ELSE agent.flush_counter + 1]
          /\ emitted' = emitted \o r.pushed
    /\ polls' = Append(polls, win)

\* ------------------------------------------------------------ specifications
TickThread ==
    \E n \in 1..MaxTicks :
        \/ TickInfer(n)
        \/ TickSetEstimate(n)
        \/ TickSetContext(n)
        \/ TickAppendOk(n)
        \/ TickAppendFails(n)
        \/ TickNotify(n)
        \/ TickReturn(n)

NextCore ==
    \/ RegisterListener /\ UNCHANGED exceptAgg
    \/ StartDriver /\ UNCHANGED exceptAgg
    \/ LifespanCancel /\ UNCHANGED exceptAgg
    \/ DriverCancelled /\ UNCHANGED exceptAgg
    \/ LifespanExit /\ UNCHANGED exceptAgg
    \/ DriverWake /\ UNCHANGED exceptAgg
    \/ DriverResume /\ UNCHANGED exceptAgg
    \/ TickThread /\ UNCHANGED exceptAgg

Next ==
    \/ NextCore
    \/ QueryStart /\ UNCHANGED exceptAgg
    \/ QueryReadScore /\ UNCHANGED exceptAgg
    \/ QueryReadContext /\ UNCHANGED exceptAgg
    \/ QueryReadConfidence /\ UNCHANGED exceptAgg
    \/ QueryReadBreakdown /\ UNCHANGED exceptAgg

Spec == Init /\ [][Next]_vars

\* the event loop runs a ready coroutine and the executor runs its thread
FairSpec ==
    /\ Init
    /\ [][NextCore]_vars
    /\ WF_vars(StartDriver /\ UNCHANGED exceptAgg)
    /\ WF_vars(DriverWake /\ UNCHANGED exceptAgg)
    /\ WF_vars(DriverResume /\ UNCHANGED exceptAgg)
    /\ WF_vars(TickThread /\ UNCHANGED exceptAgg)

NextWindow ==
    \/ (\E w \in Pushers, ts \in 0..MaxTime, type \in EventTypes : PushStart(w, ts, type))
           /\ UNCHANGED exceptWindow
    \/ ExtractStart /\ UNCHANGED exceptWindow
    \/ (\E w \in Workers : EvictCutoff(w)) /\ UNCHANGED exceptWindow
    \/ (\E w \in Workers : EvictTest(w)) /\ UNCHANGED exceptWindow
    \/ (\E w \in Workers : EvictHead(w)) /\ UNCHANGED exceptWindow
    \/ (\E w \in Workers : EvictPop(w)) /\ UNCHANGED exceptWindow
    \/ ExtractSnapshot /\ UNCHANGED exceptWindow
    \/ ClockAdvance /\ UNCHANGED exceptWindow

SpecWindow == Init /\ [][NextWindow]_vars

InitInfer ==
    /\ InitAgg /\ InitWindow /\ InitStore /\ InitAnalytics /\ InitDaily
    /\ InitClassifier /\ InitIngest /\ InitLoader /\ InitPolicy /\ InitSettings /\ InitTasks /\ InitPomodoro /\ InitAgent
    /\ \E ml \in BOOLEAN : InitEstimator(ml)

NextInfer ==
    (\E f \in FeatureInputs, fails \in BOOLEAN,
        raw \in (IF model_loaded THEN MLRaw ELSE {0}) : tick(f, raw, fails))
        /\ UNCHANGED exceptInfer

SpecInfer == InitInfer /\ [][NextInfer]_vars

NextEstimate ==
    \/ (\E found \in Artifacts : Construct(found)) /\ UNCHANGED exceptEstimate
    \/ (\E f \in EstimateInputs, raw \in (IF model_loaded THEN MLRaw ELSE {0}) :
           Estimate(f, raw))
           /\ UNCHANGED exceptInfer

SpecEstimate == Init /\ [][NextEstimate]_vars

NextClassify ==
    (\E f \in ClassifyFeatures, load_score \in ClassifyLoads : Classify(f, load_score))
        /\ UNCHANGED exceptClassify

SpecClassify == Init /\ [][NextClassify]_vars

NextStore ==
    \/ (\E w \in Writers, ts \in Stamps, source \in Sources : AppendInsert(w, ts, source))
           /\ UNCHANGED exceptStore
    \/ (\E w \in Writers : AppendRaises(w)) /\ UNCHANGED exceptStore
    \/ (\E w \in Writers : AppendCommit(w)) /\ UNCHANGED exceptStore
    \/ (\E w \in Writers : AppendReturn(w)) /\ UNCHANGED exceptStore
    \/ (\E a \in QueryArgs : Query(a)) /\ UNCHANGED exceptStore

SpecStore == Init /\ [][NextStore]_vars

NextSessions ==
    \/ (\E ts \in SessionStamps, kind \in TickKinds \cup OtherKinds : append(ts, kind))
           /\ UNCHANGED <<aggVars, spVars, infVars, seVars, dsVars, fnVars, inVars, ldVars, plVars, setVars, tqVars, pomVars, daVars>>
    \/ (\E a \in SessionArgs : get_sessions(a[1], a[2], a[3]))
           /\ UNCHANGED exceptSessions

SpecSessions == Init /\ [][NextSessions]_vars

NextIngest ==
    \/ (\E body \in Batches : Receive("batch", body)) /\ UNCHANGED exceptIngest
    \/ (\E e \in EventIns : Receive("event", <<e>>)) /\ UNCHANGED exceptIngest
    \/ ingest_event("event") /\ UNCHANGED exceptIngest
    \/ ingest_batch("batch") /\ UNCHANGED exceptIngest
    \/ (\E p \in Producers : PushAppend(p)) /\ UNCHANGED exceptIngest
    \/ (\E p \in Producers, raced \in BOOLEAN : PushEvict(p, raced))
           /\ UNCHANGED exceptIngest
    \/ (\E p \in Producers : Resume(p)) /\ UNCHANGED exceptIngest

SpecIngest == Init /\ [][NextIngest]_vars

NextPolicy ==
    \/ (\E score \in PolicyScores, context \in CognitiveContexts :
           StoreEstimate(score, context)) /\ UNCHANGED exceptPolicy
    \/ StoreContext /\ UNCHANGED exceptPolicy
    \/ get_directives /\ UNCHANGED exceptPolicy

SpecPolicy == Init /\ [][NextPolicy]_vars

NextSettings ==
    \/ (\E content \in FileContents : EditFile(content)) /\ UNCHANGED exceptSettings
    \/ ImportSettings /\ UNCHANGED exceptSettings
    \/ get_settings /\ UNCHANGED exceptSettings
    \/ (\E v \in PutValues : write_settings(v)) /\ UNCHANGED exceptSettings
    \/ read_settings /\ UNCHANGED exceptSettings

SpecSettings == Init /\ [][NextSettings]_vars

NextTasks ==
    \/ (\E id \in TaskIds : add_task(id)) /\ UNCHANGED exceptTasks
    \/ (\E id \in TaskIds : RemoveFilter(id)) /\ UNCHANGED exceptTasks
    \/ RemoveAssign /\ UNCHANGED exceptTasks
    \/ complete_current /\ UNCHANGED exceptTasks
    \/ (\E load_score \in TaskLoads : UpdateSort(load_score)) /\ UNCHANGED exceptTasks
    \/ UpdateAssign /\ UNCHANGED exceptTasks

SpecTasks == Init /\ [][NextTasks]_vars

NextPomodoro ==
    \/ PomodoroTime /\ UNCHANGED exceptPomodoro
    \/ (\E load_score \in PomodoroLoads : start_pomodoro(load_score))
           /\ UNCHANGED exceptPomodoro
    \/ (\E t \in PomodoroThreads, load_score \in PomodoroLoads :
           TickComplete(t, load_score)) /\ UNCHANGED exceptPomodoro
    \/ (\E t \in PomodoroThreads : TickPhase(t)) /\ UNCHANGED exceptPomodoro
    \/ (\E t \in PomodoroThreads : TickRead(t)) /\ UNCHANGED exceptPomodoro
    \/ (\E t \in PomodoroThreads : TickWrite(t)) /\ UNCHANGED exceptPomodoro
    \/ (\E t \in PomodoroThreads : TickLong(t)) /\ UNCHANGED exceptPomodoro
    \/ (\E t \in PomodoroThreads : TickBreak(t)) /\ UNCHANGED exceptPomodoro

SpecPomodoro == Init /\ [][NextPomodoro]_vars

NextAgent ==
    (\E win \in ActiveWindows : Poll(win)) /\ UNCHANGED exceptAgent

SpecAgent == Init /\ [][NextAgent]_vars

NextDaily ==
    \/ (\E ts \in DailyStamps, kind \in DailyKinds : TimedAppend(ts, kind))
           /\ UNCHANGED exceptDaily
    \/ (\E a \in DailyArgs : DailyQuery(a[1], a[2], a[3]))
           /\ UNCHANGED exceptDaily
    \/ DailySessions /\ UNCHANGED exceptDaily

SpecDaily == Init /\ [][NextDaily]_vars

\* ===================================================================== claims
CallsOf(n) == SelectSeq(calls, LAMBDA c : c.tick = n)
InQueue(w) == wk[w].pc \notin {"idle", "done", "raised"}
Ids(evs) == {evs[i].id : i \in 1..Len(evs)}

\* C1: the periodic driver never has two tick() executions running at the same
\* time; a tick is started only after the one before it returned or raised.
C1_TicksNeverOverlap ==
    /\ Cardinality({n \in 1..MaxTicks : Running(n)}) <= 1
    /\ \A n \in 2..MaxTicks : tk[n].pc # "none" => Finished(n - 1)

C1_Witness == nticks >= 2 /\ Running(2) /\ tk[1].pc = "raised"

\* C2: the load_score, context, confidence and breakdown one state query returns
\* all come from one and the same tick.
C2_QueryFromOneTick ==
    q.pc = "done" =>
        /\ q.load_score = q.context
        /\ q.context = q.confidence
        /\ q.confidence = q.breakdown

\* C3: a push and an extract_features, or two pushes, are never inside the event
\* queue at the same time.
C3_QueueGuarded == Cardinality({w \in Workers : InQueue(w)}) <= 1

\* C4: an event whose push completed before the tick started and that is still
\* inside the window is in that tick's snapshot, and no event is removed from the
\* queue while it is fresh.
C4_FreshEventsObserved ==
    /\ removedFresh = {}
    /\ wk["tick"].pc = "done" =>
          \A e \in tickSeen : Fresh(e.ts, snapNow) => e.id \in Ids(snapshot)

\* C5: an event that was older than now - window_seconds when it was pushed is
\* counted by no extract_features that starts after that push.
C5_StalePushNeverCounted ==
    wk["tick"].pc = "done" =>
        \A e \in tickSeen : e.stale => e.id \notin Ids(snapshot)

\* C6: in every tick each registered listener is invoked exactly once, in
\* registration order and after the entry was appended, whether or not a listener
\* raises, and tick() returns the estimate.
C6_ListenersEachOnce ==
    \A n \in 1..MaxTicks :
        (Finished(n) /\ n = nticks) =>
            /\ tk[n].pc = "returned"
            /\ Len(CallsOf(n)) = Len(listeners)
            /\ \A i \in 1..Len(CallsOf(n)) :
                  CallsOf(n)[i].listener = listeners[i] /\ CallsOf(n)[i].appended

\* C7: when the timeline append of a tick fails, the latest cell already holds
\* that tick's estimate and context, and a state query made after the failure
\* and before any later tick writes the cell returns that tick's load_score,
\* context and confidence.
C7_CellFreshAfterFailedAppend ==
    /\ \A n \in 1..MaxTicks :
          (tk[n].pc = "raised" /\ n = nticks) =>
              latest_estimate = n /\ latest_context = n
    /\ (q.pc = "done" /\ q.clean /\ q.after # 0) =>
          /\ q.load_score = q.after
          /\ q.context = q.after
          /\ q.confidence = q.after

C7_Witness == q.pc = "done" /\ q.clean /\ q.after = 2 /\ 1 \in Range(timeline)

\* C8: when the timeline append raises, the tick still proceeds: the entry is
\* dropped, every listener is invoked and tick() returns instead of raising.
C8_TickSurvivesAppendFailure ==
    \A n \in 1..MaxTicks :
        (Finished(n) /\ n \notin Range(timeline)) =>
            /\ tk[n].pc = "returned"
            /\ n = nticks => Len(CallsOf(n)) = Len(listeners)

\* C9: after every tick that raised, another tick is eventually attempted, unless
\* the driver is cancelled first.
C9_FailedTickDoesNotEndLoop ==
    \A n \in 1..(MaxTicks - 1) :
        (tk[n].pc = "raised") ~> (lif # "serving" \/ tk[n + 1].pc # "none")

C9_Witness == tk[1].pc = "raised" /\ tk[2].pc = "raised" /\ Running(3) /\ lif = "serving"

\* C10: when the driver is cancelled during a tick, that tick has run to completion
\* by the time the driver is observed to have exited.
C10_InFlightTickCompletesBeforeExit ==
    lif = "stopped" => \A n \in 1..MaxTicks : ~Running(n)

\* C11: every tick() that returns has appended exactly one timeline entry, of
\* source "engine" and event_type "inference_tick", whose load_score is the
\* returned estimate's score and lies in [0, 1], and whose context is the one
\* classified in that tick, a member of CognitiveContext.
C11_ReturnedTickPersisted ==
    \A i \in 1..Len(returned) :
        LET r == returned[i]
            mine == {j \in 1..Len(persisted) : persisted[j].call = r.call}
        IN /\ Cardinality(mine) = 1
           /\ \A j \in mine :
                 /\ persisted[j].source = "engine"
                 /\ persisted[j].event_type = "inference_tick"
                 /\ persisted[j].load_score = r.estimate.score
                 /\ 0 <= persisted[j].load_score
                 /\ persisted[j].load_score <= Unit
                 /\ persisted[j].context = r.context
                 /\ persisted[j].context \in CognitiveContext

\* a tick that returned a smoothed score and a context other than the initial
\* one, after one whose append failed
C11_Witness ==
    /\ ncalls = 3
    /\ Len(returned) = 2
    /\ returned[1].call = 1
    /\ returned[2].call = 3
    /\ returned[2].context = "shallow_work"
    /\ persisted[2].load_score > 0
    /\ persisted[2].load_score < Unit
    /\ persisted[2].load_score # persisted[1].load_score

\* the rows the WHERE clause of the queries selects from a table
SelectedOf(rows) == {r \in Range(rows) : Selected(r, qargs[1])}
\* the rows a query returned
Returned(i) == Range(results[i].rows)
\* n rows ahead of an entry leave room for it under the limit of the queries
Room(n) == qargs[1].limit < 0 \/ n < qargs[1].limit
\* the entry is inside the bounds and of the source the queries were given
InFilters(r) ==
    /\ qargs[1].since # None => r.timestamp >= qargs[1].since[1]
    /\ qargs[1].until # None => r.timestamp <= qargs[1].until[1]
    /\ qargs[1].source # None => r.source = qargs[1].source[1]

\* C12 as stated: the result of a query is a prefix, by id, of the result of any
\* later query with the same arguments; no entry the earlier query returned is
\* missing from the later result.
C12_EarlierResultIsPrefix ==
    Len(results) = 2 =>
        /\ Returned(1) \subseteq Returned(2)
        /\ \A r \in Returned(2) \ Returned(1) : \A e \in Returned(1) : e.id < r.id

\* C12, amended: when the rows the later query selects number at most limit, the
\* result of the earlier query with the same arguments is a prefix, by id, of the
\* later result, and no entry the earlier query returned is missing from it.
C12_EarlierResultIsPrefixWithinLimit ==
    (Len(results) = 2 /\ Room(Cardinality(SelectedOf(results[2].read)) - 1)) =>
        /\ Returned(1) \subseteq Returned(2)
        /\ \A r \in Returned(2) \ Returned(1) : \A e \in Returned(1) : e.id < r.id

C12_Witness ==
    /\ Len(results) = 2
    /\ qargs[1].limit = 2
    /\ qargs[1].since = Some(1)
    /\ Len(results[1].rows) = 1
    /\ Len(results[2].rows) = 2
    /\ results[2].rows[1].id = 2

\* C13: the ids of the stored entries strictly increase in append order, an entry
\* whose append returned stays stored as it was appended, and an entry has the
\* same fields in every query result that contains its id.
C13_IdsIncreaseEntriesImmutable ==
    /\ \A i, j \in 1..Len(table) : i < j => table[i].id < table[j].id
    /\ acked \subseteq Range(table)
    /\ \A i \in 1..Len(results) : Returned(i) \subseteq Range(table)
    /\ \A i, j \in 1..Len(results) :
          \A r \in Returned(i), e \in Returned(j) : r.id = e.id => r = e

C13_Witness ==
    /\ Len(results) = 2
    /\ Len(table) = 2
    /\ Cardinality(acked) = 2
    /\ Len(results[1].read) = 1
    /\ table[1] \in Returned(1) \cap Returned(2)
    /\ table[2] \in Returned(2)

\* C14 as stated: a query started after append returned an id returns the entry
\* when its filters match the entry and fewer than limit of the selected entries
\* have a larger timestamp; every append that returned is stored under its own id.
C14_AckedEntryReturned ==
    /\ acked \subseteq Range(table)
    /\ Cardinality(Ids(table)) = Len(table)
    /\ \A i \in 1..Len(results) : \A e \in results[i].acked :
          (/\ InFilters(e)
           /\ Room(Cardinality({r \in SelectedOf(results[i].read) :
                                    r.timestamp > e.timestamp})))
              => e \in Returned(i)

\* C14, amended: a query started after append returned an id returns the entry
\* when its filters match the entry and fewer than limit of the other selected
\* entries have a timestamp larger than or equal to the entry's; every append
\* that returned is stored under its own id.
C14_AckedEntryReturnedUnlessCrowded ==
    /\ acked \subseteq Range(table)
    /\ Cardinality(Ids(table)) = Len(table)
    /\ \A i \in 1..Len(results) : \A e \in results[i].acked :
          (/\ InFilters(e)
           /\ Room(Cardinality({r \in SelectedOf(results[i].read) :
                                    r # e /\ r.timestamp >= e.timestamp})))
              => e \in Returned(i)

C14_Witness ==
    /\ Len(results) = 1
    /\ Len(table) = 2
    /\ qargs[1].limit = 2
    /\ qargs[1].source = Some("engine")
    /\ results[1].acked = {table[1]}
    /\ wr["w2"].pc = "committed"
    /\ Returned(1) = {table[1], table[2]}
    /\ table[2].timestamp > table[1].timestamp

\* C15: a query returns at most limit entries, each inside the bounds supplied
\* and of the source supplied, newest first; when more than limit entries match,
\* those returned have the largest timestamps.
C15_QueryFiltersAndLimit ==
    \A i \in 1..Len(results) :
        /\ Len(results[i].rows) <= qargs[1].limit
        /\ \A r \in Returned(i) : InFilters(r)
        /\ \A j, k \in 1..Len(results[i].rows) :
              j < k => results[i].rows[j].timestamp >= results[i].rows[k].timestamp
        /\ \A r \in Range(results[i].read) \ Returned(i) :
              InFilters(r) => \A e \in Returned(i) : e.timestamp >= r.timestamp

\* the arguments of the get_sessions call
since == sargs[1][1]
until == sargs[1][2]
gap_minutes == sargs[1][3]

\* the engine inference ticks stored with a timestamp in [since, until]
TicksInRange ==
    {r \in Range(table) :
        /\ r.source = "engine"
        /\ r.event_type = "inference_tick"
        /\ since # None => r.timestamp >= since[1]
        /\ until # None => r.timestamp <= until[1]}

RECURSIVE SumTickCounts(_)
SumTickCounts(i) == IF i = 0 THEN 0 ELSE SumTickCounts(i - 1) + sessions[i].tick_count

\* the ticks of all sessions in list order, each with the session it is in
RECURSIVE Placed(_)
Placed(i) ==
    IF i = 0 THEN <<>>
    ELSE Placed(i - 1) \o [j \in 1..Len(raw_sessions[i]) |->
                              [tick |-> raw_sessions[i][j], session |-> i]]

\* C16: get_sessions partitions the engine inference ticks stored in
\* [since, until]: each is in exactly one session, the tick_counts add up to
\* their number, no session is empty, and no other entry is counted.
C16_SessionsPartitionTicks ==
    sargs # None =>
        /\ \A t \in TicksInRange :
              Cardinality({i \in 1..Len(raw_sessions) : t \in Range(raw_sessions[i])}) = 1
        /\ SumTickCounts(Len(sessions)) = Cardinality(TicksInRange)
        /\ \A i \in 1..Len(sessions) :
              /\ sessions[i].tick_count >= 1
              /\ sessions[i].tick_count = Len(raw_sessions[i])
              /\ \A t \in Range(raw_sessions[i]) :
                    t.source = "engine" /\ t.event_type = "inference_tick"

\* C17: the ticks get_sessions groups are in chronological order, and two
\* adjacent ones are in different sessions exactly when their timestamps differ
\* by more than gap_minutes * 60 seconds; a difference equal to the gap keeps
\* them together.
C17_SplitExactlyAboveGap ==
    sargs # None =>
        LET p == Placed(Len(raw_sessions))
        IN \A k \in 1..(Len(p) - 1) :
              /\ p[k].tick.timestamp <= p[k + 1].tick.timestamp
              /\ p[k].session # p[k + 1].session
                    <=> p[k + 1].tick.timestamp - p[k].tick.timestamp > gap_minutes * 60

\* ticks a minute apart kept together by a gap of one minute, and a tick
\* one second later than the gap split off
C17_Witness ==
    /\ sargs = Some(<<None, None, 1>>)
    /\ Len(raw_sessions) = 2
    /\ Len(raw_sessions[1]) = 1
    /\ raw_sessions[1][1].timestamp = 0
    /\ Len(raw_sessions[2]) = 2
    /\ raw_sessions[2][1].timestamp = 61
    /\ Len(table) = 4

\* C18 as stated: session_index counts 0, 1, 2, ... in list order, start_ts <=
\* end_ts in each session, and each session ends strictly before the next starts.
C18_SessionsOldestFirst ==
    \A i \in 1..Len(sessions) :
        /\ sessions[i].session_index = i - 1
        /\ sessions[i].start_ts <= sessions[i].end_ts
        /\ i < Len(sessions) => sessions[i].end_ts < sessions[i + 1].start_ts

\* C18, amended: session_index counts 0, 1, 2, ... in list order, start_ts <=
\* end_ts in each session, no session ends after the next starts, and for
\* gap_minutes >= 0 each session ends strictly before the next starts.
C18_SessionsOldestFirstForGap ==
    \A i \in 1..Len(sessions) :
        /\ sessions[i].session_index = i - 1
        /\ sessions[i].start_ts <= sessions[i].end_ts
        /\ i < Len(sessions) =>
              /\ sessions[i].end_ts <= sessions[i + 1].start_ts
              /\ gap_minutes >= 0 => sessions[i].end_ts < sessions[i + 1].start_ts

C18_Witness ==
    /\ sargs = Some(<<None, Some(60), 0>>)
    /\ Len(sessions) = 2
    /\ sessions[1].tick_count = 2
    /\ sessions[1].start_ts = 0
    /\ sessions[1].end_ts = 0
    /\ sessions[2].start_ts = 60

RECURSIVE SumShares(_, _)
SumShares(dist, i) == IF i = 0 THEN 0 ELSE SumShares(dist, i - 1) + dist[i].share

\* C19: in every session the shares of context_distribution, each rounded to 4
\* decimals, add up to between 0.999 and 1.001, peak_load_score is at least
\* avg_load_score, and duration_minutes is not negative.
C19_SessionNumbersConsistent ==
    \A i \in 1..Len(sessions) :
        LET dist == sessions[i].context_distribution
            total == SumShares(dist, Len(dist))
        IN /\ 9990 <= total
           /\ total <= 10010
           /\ sessions[i].peak_load_score >= sessions[i].avg_load_score
           /\ sessions[i].duration_minutes >= 0

\* a session of three contexts, whose shares of 0.3333 add up to 0.9999
C19_Witness ==
    /\ Len(sessions) = 1
    /\ sessions[1].tick_count = 3
    /\ Len(sessions[1].context_distribution) = 3
    /\ SumShares(sessions[1].context_distribution, 3) = 9999
    /\ sessions[1].peak_load_score = Unit
    /\ sessions[1].avg_load_score = 5555
    /\ sessions[1].duration_minutes = 102

\* the number of ticks of a context in a session, and the place of its first
CountOf(ticks, c) == Cardinality({j \in 1..Len(ticks) : ticks[j].context = c})
FirstOf(ticks, c) ==
    CHOOSE j \in 1..Len(ticks) :
        /\ ticks[j].context = c
        /\ \A k \in 1..(j - 1) : ticks[k].context # c

\* C20: dominant_context is a context with the largest tick count of the
\* session, and among the contexts with that count the one whose first tick
\* comes first in the session.
C20_DominantIsFirstSeenMax ==
    \A i \in 1..Len(sessions) :
        LET ticks == raw_sessions[i]
            seen == {ticks[j].context : j \in 1..Len(ticks)}
            d == sessions[i].dominant_context
        IN /\ d \in seen
           /\ \A c \in seen :
                 /\ CountOf(ticks, c) <= CountOf(ticks, d)
                 /\ CountOf(ticks, c) = CountOf(ticks, d)
                       => FirstOf(ticks, d) <= FirstOf(ticks, c)

\* a tie of three contexts with one tick each, won by the one seen first
C20_Witness ==
    /\ Len(sessions) = 1
    /\ Len(raw_sessions[1]) = 3
    /\ raw_sessions[1][1].context = "stuck"
    /\ raw_sessions[1][2].context = "deep_focus"
    /\ raw_sessions[1][3].context = "shallow_work"
    /\ raw_sessions[1][1].timestamp < raw_sessions[1][2].timestamp
    /\ sessions[1].dominant_context = "stuck"

\* ---------------------------------------------------------------------
\* the engine inference ticks of the range of the get_daily_stats call, in the
\* table its query read
DailyTicksInRange ==
    {r \in Range(daily.read) :
        /\ r.source = "engine" /\ r.event_type = "inference_tick"
        /\ r.timestamp >= daily.since[1]
        /\ r.timestamp <= daily.until[1]}

RECURSIVE SumDayTicks(_)
SumDayTicks(i) ==
    IF i = 0 THEN 0 ELSE SumDayTicks(i - 1) + daily.stats[i].tick_count

\* C21: get_daily_stats returns one record for each UTC date that holds an
\* engine inference tick of the range and for no other date, the records are in
\* ascending date order, and their tick_counts sum to the number of engine
\* inference ticks of the range.
C21_OneRecordPerDayOfRange ==
    daily.pc = "done" =>
        /\ {daily.stats[k].date : k \in 1..Len(daily.stats)}
              = {UtcDay(r.timestamp) : r \in DailyTicksInRange}
        /\ \A j, k \in 1..Len(daily.stats) :
              j < k => daily.stats[j].date < daily.stats[k].date
        /\ SumDayTicks(Len(daily.stats)) = Cardinality(DailyTicksInRange)

\* ---------------------------------------------------------------------
RECURSIVE SumDaySessions(_)
SumDaySessions(i) ==
    IF i = 0 THEN 0 ELSE SumDaySessions(i - 1) + daily.stats[i].session_count

\* C22: every session get_sessions found for get_daily_stats is counted in
\* exactly one returned record, the one of the UTC date of its start_ts, so the
\* session_counts of the records sum to the number of sessions found, also
\* when ticks are appended between the steps of the call.
C22_EverySessionCounted ==
    daily.pc = "done" =>
        /\ \A i \in 1..Len(daily.found) :
              Cardinality({k \in 1..Len(daily.stats) :
                  daily.stats[k].date = UtcDay(daily.found[i].start_ts)}) = 1
        /\ \A k \in 1..Len(daily.stats) :
              daily.stats[k].session_count =
                  Cardinality({i \in 1..Len(daily.found) :
                      UtcDay(daily.found[i].start_ts) = daily.stats[k].date})
        /\ SumDaySessions(Len(daily.stats)) = Len(daily.found)

\* ---------------------------------------------------------------------
\* C23: in every DailyStats record focus_minutes, rounded to one decimal, is at
\* most total_session_minutes, rounded to one decimal.
C23_FocusWithinSessionMinutes ==
    \A k \in 1..Len(daily.stats) :
        daily.stats[k].focus_minutes <= daily.stats[k].total_session_minutes

\* two days are returned, one with sessions that last and ticks of deep_focus
\* and of another context, one with a session and no deep_focus tick
C23_Witness ==
    /\ daily.pc = "done"
    /\ Len(daily.stats) = 2
    /\ \E k \in 1..2 :
          /\ daily.stats[k].focus_minutes > 0
          /\ daily.stats[k].focus_minutes < daily.stats[k].total_session_minutes
    /\ \E k \in 1..2 :
          /\ daily.stats[k].session_count > 0
          /\ daily.stats[k].focus_minutes = 0

\* ---------------------------------------------------------------------
\* C24: estimate() returns score, intrinsic, extraneous and germane within
\* [0, 1], whatever the features and the history, on both paths.
C24_ComponentsInUnitInterval ==
    \A i \in 1..Len(returned) :
        LET e == returned[i].estimate
        IN \A x \in {e.score, e.intrinsic, e.extraneous, e.germane} :
              0 <= x /\ x <= Unit

StuckHolds(c) ==
    \/ c.features.compile_error_rate > 200 /\ c.features.tab_switch_rate > 500
    \/ c.features.task_switch_entropy > 80 /\ c.load_score > 7000
FatigueHolds(c) ==
    \/ c.load_score > 8500 /\ c.features.session_duration_min > 9000
    \/ c.features.idle_fraction > 40 /\ c.features.session_duration_min > 6000
DeepFocusHolds(c) ==
    /\ c.features.tab_switch_rate < 150 /\ c.features.window_change_rate < 200
    /\ c.features.task_switch_entropy < 30
    /\ 3000 < c.load_score /\ c.load_score < 7500
RecoveringHolds(c) == c.features.idle_fraction > 20 /\ c.load_score < 4000
ShallowWorkHolds(c) ==
    c.features.tab_switch_rate > 300 \/ c.features.task_switch_entropy > 50

\* C26: classify returns stuck exactly when a stuck condition holds, and
\* otherwise the label of the first of the rules fatigue, deep_focus,
\* recovering, shallow_work whose condition holds, and unknown when none does.
\* (classify reads nothing but its arguments: equal arguments, equal label.)
C26_FirstMatchingRule ==
    classified # None =>
        LET c == classified[1]
        IN /\ c.label = "stuck" <=> StuckHolds(c)
           /\ c.label = "fatigue" <=> ~StuckHolds(c) /\ FatigueHolds(c)
           /\ c.label = "deep_focus" <=>
                 ~StuckHolds(c) /\ ~FatigueHolds(c) /\ DeepFocusHolds(c)
           /\ c.label = "recovering" <=>
                 /\ ~StuckHolds(c) /\ ~FatigueHolds(c) /\ ~DeepFocusHolds(c)
                 /\ RecoveringHolds(c)
           /\ c.label = "shallow_work" <=>
                 /\ ~StuckHolds(c) /\ ~FatigueHolds(c) /\ ~DeepFocusHolds(c)
                 /\ ~RecoveringHolds(c) /\ ShallowWorkHolds(c)
           /\ c.label = "unknown" <=>
                 /\ ~StuckHolds(c) /\ ~FatigueHolds(c) /\ ~DeepFocusHolds(c)
                 /\ ~RecoveringHolds(c) /\ ~ShallowWorkHolds(c)

\* an input that meets a stuck condition, a fatigue condition and the
\* shallow_work condition is labelled stuck
C26_Witness ==
    /\ classified # None
    /\ StuckHolds(classified[1])
    /\ FatigueHolds(classified[1])
    /\ ShallowWorkHolds(classified[1])
    /\ classified[1].label = "stuck"

\* ---------------------------------------------------------------------
\* the raw types the parser of each source knows, of those sent here
Recognised == { <<"browser", "TAB_SWITCH">>, <<"ide", "KEYSTROKE">> }

\* the appends made for the request of producer p being handled
AppendsOf(p) == {k \in 1..Len(enq) : enq[k].producer = p /\ enq[k].n = reqs[p].n}

\* C27: POST /telemetry/event with an unknown source is answered 400, and with
\* a known source and a raw type its parser does not know 422; the step that
\* handles such a request leaves the signal processor's queue as it is, and no
\* append is ever made for the request.
C27_RejectedEventLeavesQueue ==
    [][ /\ reqs["event"].pc = "handler" /\ reqs'["event"] # reqs["event"] =>
            LET e == reqs["event"].body[1]
                unknown == e.source \notin {"browser", "ide", "desktop", "lms"}
                badtype == ~unknown /\ <<e.source, e.type>> \notin Recognised
            IN /\ unknown => reqs'["event"].status = 400
               /\ badtype => reqs'["event"].status = 422
               /\ unknown \/ badtype =>
                     /\ reqs'["event"].pc = "done"
                     /\ events' = events
                     /\ enq' = enq
        /\ reqs'["event"].status \in {400, 422} =>
              {k \in 1..Len(enq') :
                  enq'[k].producer = "event" /\ enq'[k].n = reqs'["event"].n} = {}
      ]_vars

\* a request was answered 422 while the queue held an event and a push of the
\* batch was under way
C27_Witness ==
    /\ reqs["event"].status = 422
    /\ reqs["event"].body[1].source \in _KNOWN_SOURCES
    /\ AppendsOf("event") = {}
    /\ events # <<>>
    /\ reqs["batch"].pc = "evict"

\* ---------------------------------------------------------------------
\* an event of the body that ingest_batch accepts
Accepted(e) ==
    e.source \in {"browser", "ide", "desktop", "lms"}
        /\ <<e.source, e.type>> \in Recognised

\* C28: the appends made for one producer are in the order it submitted its
\* events, request after request and inside a batch event after event, each
\* event appended at most once; the events of a batch appended so far are the
\* first of its accepted events, and when the batch is answered they are all
\* its accepted events, accepted is their number and total the batch's length.
C28_ProducerOrderKept ==
    /\ \A j, k \in 1..Len(enq) :
          j < k /\ enq[j].producer = enq[k].producer =>
              \/ enq[j].n < enq[k].n
              \/ enq[j].n = enq[k].n /\ enq[j].i < enq[k].i
    /\ LET r == reqs["batch"]
           done == {enq[k].i : k \in AppendsOf("batch")}
           all == {j \in 1..Len(r.body) : Accepted(r.body[j])}
       IN /\ done \subseteq all
          /\ \A j \in all, k \in done : j < k => j \in done
          /\ r.status = 202 =>
                /\ done = all
                /\ r.reply = Some([accepted |-> Cardinality(AppendsOf("batch")),
                                   total |-> Len(r.body)])

\* a batch of an accepted event, an event of an unknown source and another
\* accepted event was answered with accepted 2, and an event of the other
\* producer was appended between the two
C28_Witness ==
    /\ reqs["batch"].status = 202
    /\ reqs["batch"].reply = Some([accepted |-> 2, total |-> 3])
    /\ ~Accepted(reqs["batch"].body[2])
    /\ \E j, k, m \in 1..Len(enq) :
          /\ j < k /\ k < m
          /\ enq[j].producer = "batch" /\ enq[j].i = 1
          /\ enq[k].producer = "event"
          /\ enq[m].producer = "batch" /\ enq[m].i = 3

\* ---------------------------------------------------------------------
\* C29: when the model artifact is not loaded, whatever the reason, the
\* constructor returns, using_ml_model is false, every estimate() call takes
\* the rule-based path, and the path does not change from call to call.
C29_LoadFailureFallsBack ==
    /\ artifact # None /\ artifact[1].found # "valid" =>
          /\ ~artifact[1].raised
          /\ ~model_loaded
          /\ \A i \in 1..Len(returned) : returned[i].path = "v1"
    /\ \A i, j \in 1..Len(returned) : returned[i].path = returned[j].path

\* ---------------------------------------------------------------------
\* the actions evaluate must return, in rule-table order
MatchingRules(score, context) ==
    {n \in 1..Len(RULES) : /\ RULES[n].context = context
                           /\ RULES[n].load_min <= score
                           /\ score <= RULES[n].load_max}

RECURSIVE ActionsOf(_, _)
ActionsOf(n, rules) ==
    IF n = 0 THEN <<>>
    ELSE ActionsOf(n - 1, rules) \o (IF n \in rules THEN RULES[n].actions ELSE <<>>)

WithPriority(actions, p) == SelectSeq(actions, LAMBDA a : a.priority = p)

C31_GetReflectsPut ==
    http.put # None /\ InRange(http.put[1].v) =>
        /\ http.put[1].status = 200
        /\ http.get # None =>
              /\ http.get[1].status = 200
              /\ http.get[1].settings =
                     Some([http.put[1].before EXCEPT !.session_gap_minutes = http.put[1].v])

\* ---------------------------------------------------------------------
\* C32: when _load raised, on text that is not JSON or on a value it cannot
\* coerce, every get_settings() afterwards returns DEFAULTS.
C32_MalformedFileGivesDefaults ==
    imported # None /\ imported[1].raised /\ got # None => got[1] = DEFAULTS

\* ---------------------------------------------------------------------
\* C33: the queue of the signal processor never holds more events than
\* telemetry_buffer_size, whatever the pace of the pushes and the timestamps
\* of their events.
C33_BufferBounded == Len(events) <= telemetry_buffer_size

\* ---------------------------------------------------------------------
\* C34: a task that was added is in the queue, once, as long as no remove_task
\* with its id and no complete_current took it, also while update_load runs
\* beside them; and a task that was removed is not in the queue again.
C34_TasksStayUntilRemoved ==
    /\ \A id \in ledger.added \ ledger.removing :
           Cardinality({i \in 1..Len(_tasks) : _tasks[i] = id}) = 1
    /\ \A id \in ledger.removed : id \notin Range(_tasks)

\* ---------------------------------------------------------------------
\* C35: whatever the interleaving of the two threads that call tick, the WORK
\* intervals that ticks found complete count once each: sessions_completed
\* and the number of breaks the ticks started never exceed their number, and
\* equal it when no tick is running.
C35_OneSessionPerWorkInterval ==
    /\ pstate.sessions_completed <= Cardinality(pledger.seen)
    /\ pledger.breaks <= Cardinality(pledger.seen)
    /\ (\A t \in PomodoroThreads : pth[t].pc = "idle") =>
           /\ pstate.sessions_completed = Cardinality(pledger.seen)
           /\ pledger.breaks = Cardinality(pledger.seen)

\* ---------------------------------------------------------------------
\* C36: the state changes only by a start or by a tick that found the
\* interval complete; the tick of a completed WORK interval ends with
\* sessions_completed one above what it was when the tick began, in
\* long_break when that count is a multiple of 4 and in short_break
\* otherwise; the tick of a completed break starts work with the count as it
\* was; and sessions_completed never decreases.
C36_TickFollowsTheCycle ==
    [][ /\ pstate'.sessions_completed >= pstate.sessions_completed
        /\ pstate' # pstate =>
              \/ pstate.phase = "idle" /\ pstate'.phase = "work"
              \/ \E t \in PomodoroThreads : pth[t].pc # "idle" /\ pth'[t] # pth[t]
        /\ \A t \in PomodoroThreads :
              /\ pth[t].pc = "break" /\ pth'[t].pc = "idle" =>
                    /\ pstate'.sessions_completed = pth[t].was + 1
                    /\ pstate'.phase = IF (pth[t].was + 1) % 4 = 0
                                       THEN "long_break" ELSE "short_break"
              /\ pth[t].pc = "phase" /\ pth'[t].pc = "idle" =>
                    /\ pstate'.phase = "work"
                    /\ pstate'.sessions_completed = pth[t].was
      ]_vars

\* ---------------------------------------------------------------------
RECURSIVE SumSessionTicks(_)
SumSessionTicks(i) ==
    IF i = 0 THEN 0 ELSE SumSessionTicks(i - 1) + daily.found[i].tick_count

\* C37: the ticks get_daily_stats counts are the ticks of the sessions that
\* get_sessions returns for the same range and gap: the tick_counts of the
\* days and the tick_counts of the sessions have the same total.
C37_DaysAndSessionsSameTicks ==
    daily.pc = "done" /\ daily.stats # <<>> =>
        SumDayTicks(Len(daily.stats)) = SumSessionTicks(Len(daily.found))

\* ---------------------------------------------------------------------
\* C38: a poll that reads a window whose app or title is not that of the
\* window the poll before it read emits a WINDOW_FOCUS event.
C38_FocusEventOnAppOrTitleChange ==
    \A k \in 2..Len(polls) :
        /\ polls[k] # None /\ polls[k - 1] # None
        /\ polls[k] # polls[k - 1]
        => \E i \in 1..Len(emitted) :
              emitted[i].type = "WINDOW_FOCUS" /\ emitted[i].poll = k

====
